---- MODULE Spec2Model ----
(***************************************************************************)
(* neocognos-tui: the render loop (src/main.rs), the application state     *)
(* (src/app.rs), the command classifier (src/commands.rs) and the agent    *)
(* thread (src/agent_thread.rs) with the two mpsc channels between them.   *)
(*                                                                         *)
(* Strings are sequences of one-character strings, so that trim,           *)
(* starts_with and splitn are computed as the code computes them.          *)
(* Texts of events that the code only formats and never inspects are       *)
(* TLA+ strings (tags); the clear sentinel "__clear__" is one of them.     *)
(***************************************************************************)
EXTENDS Integers, Sequences, FiniteSets, TLC

(***************************************************************************)
(* Bounds of the model.                                                    *)
(***************************************************************************)
\* inputs the render loop may dispatch in one session
MaxSubmits == 2
\* events the engine may push during one agent turn
MaxEngineEvents == 1
\* progress strings one /compact may report
MaxProgress == 1
\* strings the environment may send in the agent-only specification
MaxSends == 2

(***************************************************************************)
(* Strings.                                                                *)
(***************************************************************************)
IsWs(c) == c \in {" ", "\t", "\n"}

\* str::trim
Trim(s) ==
    IF \A i \in 1..Len(s) : IsWs(s[i]) THEN << >>
    ELSE LET a == CHOOSE i \in 1..Len(s) :
                      ~IsWs(s[i]) /\ \A j \in 1..(i-1) : IsWs(s[j])
             b == CHOOSE i \in 1..Len(s) :
                      ~IsWs(s[i]) /\ \A j \in (i+1)..Len(s) : IsWs(s[j])
         IN  SubSeq(s, a, b)

\* str::starts_with
StartsWith(s, p) == Len(s) >= Len(p) /\ SubSeq(s, 1, Len(p)) = p

\* the two parts of str::splitn(2, ' '): the text before the first space and
\* the text after it (absent when there is no space)
FirstSpace(s) ==
    IF \E i \in 1..Len(s) : s[i] = " "
    THEN CHOOSE i \in 1..Len(s) : s[i] = " " /\ \A j \in 1..(i-1) : s[j] # " "
    ELSE 0

\* (mutant) the line is not split: the whole line is taken as the command
SplitCmdWhole(s) == s

SplitCmd(s) == IF FirstSpace(s) = 0 THEN s ELSE SubSeq(s, 1, FirstSpace(s) - 1)

SplitArg(s) ==
    IF FirstSpace(s) = 0 THEN << >>
    ELSE Trim(SubSeq(s, FirstSpace(s) + 1, Len(s)))

\* the literals of commands.rs and agent_thread.rs
S_quit    == <<"/", "q", "u", "i", "t">>
S_exit    == <<"/", "e", "x", "i", "t">>
S_q       == <<"/", "q">>
S_clear   == <<"/", "c", "l", "e", "a", "r">>
S_model   == <<"/", "m", "o", "d", "e", "l">>
S_help    == <<"/", "h", "e", "l", "p">>
S_qmark   == <<"/", "?">>
S_compact == <<"/", "c", "o", "m", "p", "a", "c", "t">>
S_cost    == <<"/", "c", "o", "s", "t">>

(***************************************************************************)
(* commands.rs: process_command.  The result carries the variant, its      *)
(* argument and what the call wrote to the process's standard output.      *)
(***************************************************************************)
CmdResult(k, a, o) == [kind |-> k, arg |-> a, stdout |-> o]

SlashCommand(trimmed) ==
    LET cmd == SplitCmd(trimmed)
        arg == SplitArg(trimmed)
    IN  IF cmd \in {S_quit, S_exit, S_q} THEN CmdResult("Quit", << >>, "")
        ELSE IF cmd = S_clear THEN CmdResult("Clear", << >>, "")
        ELSE IF cmd = S_model THEN
            IF arg = << >> THEN CmdResult("Continue", << >>, "usage_model")
            ELSE CmdResult("SwitchModel", arg, "")
        ELSE IF cmd \in {S_help, S_qmark} THEN CmdResult("Continue", << >>, "help")
        ELSE IF cmd = S_compact THEN CmdResult("Compact", << >>, "")
        ELSE CmdResult("Continue", << >>, "unknown_command")

\* (mutant) the shell escape without its test for an empty command
BangCommandUnchecked(trimmed) == CmdResult("ShellCommand", Trim(Tail(trimmed)), "")

BangCommand(trimmed) ==
    LET command == Trim(Tail(trimmed))
    IN  IF command = << >> THEN CmdResult("Continue", << >>, "usage_bang")
        ELSE CmdResult("ShellCommand", command, "")

\* (mutant) process_command without input.trim()
process_commandUntrimmed(input) ==
    IF StartsWith(input, <<"!">>) THEN BangCommand(input)
    ELSE IF ~StartsWith(input, <<"/">>) THEN CmdResult("NotACommand", << >>, "")
    ELSE SlashCommand(input)

process_command(input) ==
    LET trimmed == Trim(input)
    IN  IF StartsWith(trimmed, <<"!">>) THEN BangCommand(trimmed)
        ELSE IF ~StartsWith(trimmed, <<"/">>) THEN CmdResult("NotACommand", << >>, "")
        ELSE SlashCommand(trimmed)

(***************************************************************************)
(* app.rs: the application state and its operations.  input is a sequence  *)
(* of characters; "U2", "U3" and "U4" stand for characters whose UTF-8     *)
(* encoding takes 2, 3 and 4 bytes, every other character takes 1 byte.    *)
(* cursor_pos is a byte offset, as in the code.                            *)
(***************************************************************************)
\* usize::MAX, the scroll position that follows the tail
UsizeMax == 2147483647

\* char::len_utf8
CharLen(c) == IF c = "U2" THEN 2 ELSE IF c = "U3" THEN 3 ELSE IF c = "U4" THEN 4 ELSE 1

RECURSIVE ByteLen(_)
\* String::len, in bytes
ByteLen(s) == IF s = << >> THEN 0 ELSE CharLen(Head(s)) + ByteLen(Tail(s))

\* byte offset at which the k-th character starts (k = Len(s)+1: the end)
StartOf(s, k) == ByteLen(SubSeq(s, 1, k - 1))

\* str::is_char_boundary
IsCharBoundary(s, b) == \E k \in 1..(Len(s) + 1) : StartOf(s, k) = b

\* index of the character that starts at byte offset b
CharAt(s, b) == CHOOSE k \in 1..(Len(s) + 1) : StartOf(s, k) = b

RemoveAt(s, k) == SubSeq(s, 1, k - 1) \o SubSeq(s, k + 1, Len(s))

InsertAt(s, k, c) == SubSeq(s, 1, k - 1) \o <<c>> \o SubSeq(s, k, Len(s))

\* saturating_sub on usize
\* (mutant) a subtraction that does not saturate
SatSubPlain(a, b) == a - b

SatSub(a, b) == IF a >= b THEN a - b ELSE 0

\* history_index: None is -1, Some(i) is i (0-based, as in the code)
None == -1

\* App::new (thinking: thinking_since is Some)
AppNew ==
    [ messages      |-> << >>,
      input         |-> << >>,
      cursor_pos    |-> 0,
      scroll_offset |-> 0,
      status        |-> [model |-> "model_name", total_tokens |-> 0, total_turns |-> 0,
                         cost |-> 0],
      recent_files  |-> << >>,
      recent_tools  |-> << >>,
      llm_calls     |-> << >>,
      agent_busy    |-> FALSE,
      should_quit   |-> FALSE,
      input_history |-> << >>,
      history_index |-> None,
      thinking      |-> FALSE ]

\* (mutant) submit_input without the trim
SubmitTextRaw(a) == a.input

\* App::submit_input: the state after the call and the value returned
\* (<< >> stands for the None it returns on a blank input)
SubmitText(a) == Trim(a.input)

\* (mutant) submit_input that skips an entry equal to the newest one
SubmitNoDuplicate(a) ==
    IF SubmitText(a) = << >> THEN a
    ELSE [a EXCEPT !.input_history =
                       IF @ # << >> /\ @[Len(@)] = SubmitText(a) THEN @
                       ELSE Append(@, SubmitText(a)),
                   !.history_index = None,
                   !.input = << >>,
                   !.cursor_pos = 0]

\* (mutant) submit_input that keeps the browsing position
SubmitKeepsIndex(a) ==
    IF SubmitText(a) = << >> THEN a
    ELSE [a EXCEPT !.input_history = Append(@, SubmitText(a)),
                   !.input = << >>,
                   !.cursor_pos = 0]

submit_input(a) ==
    IF SubmitText(a) = << >> THEN a
    ELSE [a EXCEPT !.input_history = Append(@, SubmitText(a)),
                   !.history_index = None,
                   !.input = << >>,
                   !.cursor_pos = 0]

history_up(a) ==
    IF a.input_history = << >> THEN a
    ELSE IF a.history_index = 0 THEN a
    ELSE LET idx == IF a.history_index = None THEN Len(a.input_history) - 1
                    ELSE a.history_index - 1
         IN  [a EXCEPT !.history_index = idx,
                       !.input = a.input_history[idx + 1],
                       !.cursor_pos = ByteLen(a.input_history[idx + 1])]

\* (mutant) history_down that empties the input also when not browsing
HistoryDownAlwaysClears(a) ==
    IF a.history_index = None \/ a.history_index + 1 >= Len(a.input_history)
    THEN [a EXCEPT !.history_index = None, !.input = << >>, !.cursor_pos = 0]
    ELSE [a EXCEPT !.history_index = a.history_index + 1,
                   !.input = a.input_history[a.history_index + 2],
                   !.cursor_pos = ByteLen(a.input_history[a.history_index + 2])]

history_down(a) ==
    IF a.history_index = None THEN a
    ELSE IF a.history_index + 1 >= Len(a.input_history)
         THEN [a EXCEPT !.history_index = None, !.input = << >>, !.cursor_pos = 0]
         ELSE [a EXCEPT !.history_index = a.history_index + 1,
                        !.input = a.input_history[a.history_index + 2],
                        !.cursor_pos = ByteLen(a.input_history[a.history_index + 2])]

\* (mutant) insert_char that advances the cursor by one byte
InsertCharOneByte(a, c) ==
    [a EXCEPT !.input = InsertAt(a.input, CharAt(a.input, a.cursor_pos), c),
              !.cursor_pos = a.cursor_pos + 1]

insert_char(a, c) ==
    [a EXCEPT !.input = InsertAt(a.input, CharAt(a.input, a.cursor_pos), c),
              !.cursor_pos = a.cursor_pos + CharLen(c)]

\* the start of the last character of input[..cursor_pos]
PrevBoundary(a) == StartOf(a.input, CharAt(a.input, a.cursor_pos) - 1)

\* (mutant) delete_char_before that steps the cursor back by one byte
DeleteCharBeforeOneByte(a) ==
    IF a.cursor_pos > 0
    THEN [a EXCEPT !.input = RemoveAt(a.input, CharAt(a.input, a.cursor_pos) - 1),
                   !.cursor_pos = a.cursor_pos - 1]
    ELSE a

delete_char_before(a) ==
    IF a.cursor_pos > 0
    THEN [a EXCEPT !.input = RemoveAt(a.input, CharAt(a.input, a.cursor_pos) - 1),
                   !.cursor_pos = PrevBoundary(a)]
    ELSE a

delete_char_after(a) ==
    IF a.cursor_pos < ByteLen(a.input)
    THEN [a EXCEPT !.input = RemoveAt(a.input, CharAt(a.input, a.cursor_pos))]
    ELSE a

move_cursor_left(a) ==
    IF a.cursor_pos > 0 THEN [a EXCEPT !.cursor_pos = PrevBoundary(a)] ELSE a

move_cursor_right(a) ==
    IF a.cursor_pos < ByteLen(a.input)
    THEN [a EXCEPT !.cursor_pos = StartOf(a.input, CharAt(a.input, a.cursor_pos) + 1)]
    ELSE a

move_cursor_home(a) == [a EXCEPT !.cursor_pos = 0]

move_cursor_end(a) == [a EXCEPT !.cursor_pos = ByteLen(a.input)]

\* (mutant) add_message that only pushes
AddMessageKeepsScroll(a, msg) == [a EXCEPT !.messages = Append(@, msg)]

add_message(a, msg) ==
    [a EXCEPT !.messages = Append(@, msg), !.scroll_offset = UsizeMax]

\* Vec::retain(|f| f != path)
Without(s, x) == SelectSeq(s, LAMBDA f : f # x)

\* Vec::truncate
Truncate(s, n) == IF Len(s) > n THEN SubSeq(s, 1, n) ELSE s

\* (mutant) add_recent_file without the retain
AddRecentFileNoRetain(a, path) ==
    [a EXCEPT !.recent_files = Truncate(<<path>> \o @, 10)]

add_recent_file(a, path) ==
    [a EXCEPT !.recent_files = Truncate(<<path>> \o Without(@, path), 10)]

\* (mutant) add_recent_tool that first removes the entries of the same name
AddRecentToolDedup(a, name, success) ==
    [a EXCEPT !.recent_tools =
        Truncate(<<[name |-> name, success |-> success]>>
                    \o SelectSeq(@, LAMBDA t : t.name # name), 8)]

add_recent_tool(a, name, success) ==
    [a EXCEPT !.recent_tools =
        Truncate(<<[name |-> name, success |-> success]>> \o @, 8)]

\* (mutant) clear_messages empties the log and leaves the scroll position
ClearKeepsScroll(a) == [a EXCEPT !.messages = << >>]

clear_messages(a) == [a EXCEPT !.messages = << >>, !.scroll_offset = 0]

(***************************************************************************)
(* agent_thread.rs: AgentEvent, and main.rs: what the render loop does     *)
(* with each event.                                                        *)
(***************************************************************************)
Narration(t)     == [type |-> "Narration", text |-> t]
Response(t)      == [type |-> "Response", text |-> t]
ErrorEvt(t)      == [type |-> "Error", text |-> t]
\* a system notice: text is the fixed part of the string, info the formatted values
SystemInfo(t, i) == [type |-> "SystemMessage", text |-> t, info |-> i]
SystemMessage(t) == SystemInfo(t, << >>)
Done             == [type |-> "Done"]
Quit             == [type |-> "Quit"]
ToolCallStarted(n, a) == [type |-> "ToolCallStarted", name |-> n, args |-> a]
ToolCallCompleted(n, ok) == [type |-> "ToolCallCompleted", name |-> n, success |-> ok]
LlmCall(m, p, c) ==
    [type |-> "LlmCall", model |-> m, prompt_tokens |-> p, completion_tokens |-> c]
TokenUpdate(total, turns, cost) ==
    [type |-> "TokenUpdate", total |-> total, turns |-> turns, cost |-> cost]

\* the closing events of a turn
IsClosing(e) == e.type \in {"Done", "Quit"}

\* ChatMessage
UserMsg(line) == [type |-> "User", line |-> line]
ChatMsg(kind, t) == [type |-> kind, text |-> t]

Contains(s, c) == \E i \in 1..Len(s) : s[i] = c

RECURSIVE Tokens(_)
\* str::split_whitespace
Tokens(s) ==
    IF s = << >> THEN << >>
    ELSE IF IsWs(Head(s)) THEN Tokens(Tail(s))
    ELSE LET n == IF \E i \in 1..Len(s) : IsWs(s[i])
                  THEN (CHOOSE i \in 1..Len(s) :
                            IsWs(s[i]) /\ \A j \in 1..(i-1) : ~IsWs(s[j])) - 1
                  ELSE Len(s)
         IN  <<SubSeq(s, 1, n)>> \o Tokens(SubSeq(s, n + 1, Len(s)))

IsQuoteOrBrace(c) == c \in {"\"", "'", "{", "}", ","}

\* str::trim_matches(|c| c == '"' || c == '\'' || c == '{' || c == '}' || c == ',')
TrimMatches(s) ==
    IF \A i \in 1..Len(s) : IsQuoteOrBrace(s[i]) THEN << >>
    ELSE LET a == CHOOSE i \in 1..Len(s) :
                      ~IsQuoteOrBrace(s[i]) /\ \A j \in 1..(i-1) : IsQuoteOrBrace(s[j])
             b == CHOOSE i \in 1..Len(s) :
                      ~IsQuoteOrBrace(s[i]) /\ \A j \in (i+1)..Len(s) : IsQuoteOrBrace(s[j])
         IN  SubSeq(s, a, b)

LooksLikePath(s) == Contains(s, "/") \/ Contains(s, ".")

\* main.rs extract_file_path on the arguments of a tool call; << >> is None
extract_file_path(args_short) ==
    LET toks == Tokens(Trim(args_short))
        hits == SelectSeq(toks, LAMBDA t : LooksLikePath(TrimMatches(t)))
    IN  IF LooksLikePath(Trim(args_short)) /\ hits # << >>
        THEN TrimMatches(Head(hits))
        ELSE << >>

IsFileTool(name) == name \in {"read_file", "write_file"}

\* (mutant) the Error arm also clears the busy flag
OnErrorClearsBusy(a, evt) ==
    [add_message(a, ChatMsg("Error", evt.text)) EXCEPT !.agent_busy = FALSE]

\* AgentEvent::Error(text)
OnError(a, evt) == add_message(a, ChatMsg("Error", evt.text))

\* AgentEvent::Done
OnDone(a) == [a EXCEPT !.agent_busy = FALSE, !.thinking = FALSE]

\* AgentEvent::Quit
OnQuit(a) == [a EXCEPT !.should_quit = TRUE]

\* the match of the drain loop of main, one arm per event
ProcessEvent(a, evt) ==
    CASE evt.type = "Narration" -> add_message(a, ChatMsg("Narration", evt.text))
      [] evt.type = "ToolCallStarted" ->
            LET a1 == add_message(a, [type |-> "ToolCall", name |-> evt.name,
                                      args_short |-> evt.args])
            IN  IF IsFileTool(evt.name) /\ extract_file_path(evt.args) # << >>
                THEN add_recent_file(a1, extract_file_path(evt.args))
                ELSE a1
      [] evt.type = "LlmCall" ->
            [a EXCEPT !.llm_calls = Append(@, [model |-> evt.model,
                                               prompt_tokens |-> evt.prompt_tokens,
                                               completion_tokens |-> evt.completion_tokens])]
      [] evt.type = "ToolCallCompleted" ->
            add_recent_tool(
                add_message(a, [type |-> "ToolResult", name |-> evt.name,
                                success |-> evt.success]),
                evt.name, evt.success)
      [] evt.type = "Response" -> add_message(a, ChatMsg("Assistant", evt.text))
      [] evt.type = "TokenUpdate" ->
            [a EXCEPT !.status = [@ EXCEPT !.total_tokens = evt.total,
                                            !.total_turns = evt.turns,
                                            !.cost = evt.cost]]
      [] evt.type = "Error" -> OnError(a, evt)
      [] evt.type = "SystemMessage" ->
            IF evt.text = "__clear__" THEN clear_messages(a)
            ELSE add_message(a, [type |-> "System", text |-> evt.text,
                                     info |-> evt.info])
      [] evt.type = "Done" -> OnDone(a)
      [] evt.type = "Quit" -> OnQuit(a)

(***************************************************************************)
(* session.rs: the session counters.  Costs are in millionths of a dollar  *)
(* (3 per prompt token, 15 per completion token).                          *)
(***************************************************************************)
StatsDefault ==
    [total_prompt_tokens |-> 0, total_completion_tokens |-> 0, total_turns |-> 0]

total_tokens(st) == st.total_prompt_tokens + st.total_completion_tokens

estimated_cost(st) == st.total_prompt_tokens * 3 + st.total_completion_tokens * 15

\* what the engine may report for a turn that succeeded: result.turns and
\* result.total_tokens
EngineResults ==
    { [turns |-> 1, total_tokens |-> 80000],
      [turns |-> 2, total_tokens |-> 80001] }

\* (mutant) the counters are overwritten with the figures of the last call
AccumulateStatsOverwrite(st, turns, tokens) ==
    [st EXCEPT !.total_turns = turns, !.total_prompt_tokens = tokens]

\* (mutant) the turn counter counts the calls, not the turns they report
AccumulateStatsCountsCalls(st, turns, tokens) ==
    [st EXCEPT !.total_turns = @ + 1,
               !.total_prompt_tokens = @ + tokens]

\* Session::run_turn, after the engine returned Ok: the counters accumulate
AccumulateStats(st, turns, tokens) ==
    [st EXCEPT !.total_turns = @ + turns,
               !.total_prompt_tokens = @ + tokens]

\* the events the engine may push while it runs a turn
EngineEvents ==
    { Response("answer") }

\* the progress strings compaction may report to its callback
ProgressStrings == {"compacting"}

\* what the subordinate shell may return: Ok(output) with the combined
\* stdout and stderr, or Err when it could not be started
ShellResults ==
    { [ok |-> TRUE, out |-> "output"],
      [ok |-> TRUE, out |-> "__clear__"],
      [ok |-> FALSE, out |-> ""] }

(***************************************************************************)
(* agent_thread.rs: the events each arm of agent_loop sends.               *)
(***************************************************************************)
context_budget == 200000

\* (mutant) the threshold test with >= in place of >
ShouldAutoCompactAtThreshold(st) ==
    st.total_prompt_tokens >= (context_budget * 80) \div 100 /\ st.total_turns >= 3

\* the auto-compaction test after a successful turn
ShouldAutoCompact(st) ==
    st.total_prompt_tokens > (context_budget * 80) \div 100 /\ st.total_turns >= 3

\* (usage as f64 / context_budget as f64 * 100.0) as u32
UsagePct(st) == (st.total_prompt_tokens * 100) \div context_budget

EmptyInputEvents == <<Done>>

QuitEvents == <<Quit>>

IsHelpInput(input) == StartsWith(Trim(input), S_help) \/ Trim(input) = S_qmark

ContinueEvents(input) ==
    IF IsHelpInput(input) THEN <<SystemMessage("help"), Done>> ELSE <<Done>>

ClearEvents == <<SystemMessage("__clear__"), Done>>

SwitchModelEvents(model) == <<SystemInfo("model_switching_not_implemented", model), Done>>

CompactEndEvents == <<Done>>

CostEvents(st) ==
    << SystemInfo("cost_breakdown",
                  << st.total_turns, st.total_prompt_tokens,
                     st.total_completion_tokens, estimated_cost(st),
                     IF UsagePct(st) > 100 THEN 100 ELSE UsagePct(st) >>),
       Done >>

ShellEvents(res) ==
    IF res.ok THEN <<SystemMessage(res.out), Done>>
    ELSE <<ErrorEvt("shell_error"), Done>>

TokenUpdateOf(st) == TokenUpdate(total_tokens(st), st.total_turns, estimated_cost(st))

\* (mutant) Done is sent right after TokenUpdate, before the threshold test
TurnOkEventsDoneFirst(st) == <<TokenUpdateOf(st), Done>>

TurnOkEvents(st) ==
    IF ShouldAutoCompact(st) THEN <<TokenUpdateOf(st)>> ELSE <<TokenUpdateOf(st), Done>>

\* (mutant) the auto-compaction passes a callback that re-emits the progress
AutoCompactEventsWithProgress(st) ==
    <<SystemMessage("compacting"), SystemInfo("auto_compacted", <<UsagePct(st)>>), Done>>

AutoCompactEvents(st) == <<SystemInfo("auto_compacted", <<UsagePct(st)>>), Done>>

\* (mutant) the counters are reported after a failed engine call too
TurnErrEventsWithStats == <<ErrorEvt("engine_error"), TokenUpdate(0, 0, 0), Done>>

\* (mutant) the Err arm skips the Done that follows the match
TurnErrEventsNoDone == <<ErrorEvt("engine_error")>>

TurnErrEvents == <<ErrorEvt("engine_error"), Done>>

(***************************************************************************)
(* The state.                                                              *)
(***************************************************************************)
VARIABLES
    app,            \* main.rs: the App the render loop owns
    r_pc,           \* main.rs: where the main thread is
    r_ret,          \* what main returned: "none" (still running), "ok", "err"
    term,           \* the terminal: raw mode and alternate screen
    last_key,       \* the key handled in this iteration of the render loop
    input_ch,       \* mpsc channel main -> agent thread (strings)
    event_ch,       \* mpsc channel agent thread -> main (AgentEvent)
    a_pc,           \* agent_thread.rs: where the agent thread is
    a_input,        \* the input of the turn in progress
    a_todo,         \* the sends the current arm of agent_loop still has to make
    a_next,         \* where the agent thread goes after the last of them
    a_count,        \* engine events / progress strings pushed in this call
    stats,          \* session.stats
    compactions,    \* calls of the engine's compaction that returned
    shutdown_calls, \* calls of session.shutdown()
    stdout,         \* what process_command printed, in order
    sent,           \* history: the strings put on the inbound channel
    emitted,        \* history: the events the agent thread sent
    handled,        \* history: the events the render loop processed
    tlog,           \* history: one record per input the agent thread received
    c_line,         \* commands.rs: the line process_command is called with
    c_out,          \* commands.rs: what that call returned, once it has
    scroll_before,  \* history: scroll_offset before the last append to messages
    cfg,            \* session.rs: the SessionConfig from_config is called with
    resolved        \* session.rs: the provider and model from_config resolved

vars == << app, r_pc, r_ret, term, last_key, input_ch, event_ch, a_pc, a_input, a_todo,
           a_next, a_count, stats, compactions, shutdown_calls, stdout, sent,
           emitted, handled, tlog, c_line, c_out, scroll_before, cfg, resolved >>

pureVars == << c_line, c_out, scroll_before, cfg, resolved >>

mainVars == << app, r_pc, r_ret, term, last_key, handled >>

agentVars == << a_pc, a_input, a_todo, a_next, a_count, stats, compactions,
                shutdown_calls, stdout, emitted, tlog >>

(***************************************************************************)
(* std::sync::mpsc: an unbounded FIFO queue with one sender and one        *)
(* receiver; tx / rx tell whether that end is still alive.                 *)
(***************************************************************************)
NewChannel == [q |-> << >>, tx |-> TRUE, rx |-> TRUE]

\* Sender::send: Err (and the value is dropped) when the receiver is gone
SendOk(ch) == ch.rx

ChanSend(ch, v) == IF SendOk(ch) THEN [ch EXCEPT !.q = Append(@, v)] ELSE ch

\* (mutant) the receiver gives the newest value first
ChanNewest(ch) == ch.q[Len(ch.q)]

\* Receiver::recv / try_recv give the oldest value first
ChanHead(ch) == Head(ch.q)

ChanPop(ch) == [ch EXCEPT !.q = Tail(@)]

DropSender(ch) == [ch EXCEPT !.tx = FALSE]

DropReceiver(ch) == [ch EXCEPT !.rx = FALSE, !.q = << >>]

(***************************************************************************)
(* main.rs: the state when the render loop is entered.                     *)
(***************************************************************************)
AppAtLoopEntry ==
    add_message(add_message(AppNew, [type |-> "System", text |-> "banner", info |-> << >>]),
                [type |-> "System", text |-> "hint", info |-> << >>])

\* process_command has not been called
NotCalled == CmdResult("", << >>, "")

\* the threads, the channels and the session when the render loop is entered
InitThreads ==
    /\ r_pc = "draw"
    /\ r_ret = "none"
    /\ term = [raw |-> TRUE, alt |-> TRUE]
    /\ last_key = "none"
    /\ input_ch = NewChannel
    /\ event_ch = NewChannel
    /\ a_pc = "recv"
    /\ a_input = << >>
    /\ a_todo = << >>
    /\ a_next = "recv"
    /\ a_count = 0
    /\ stats = StatsDefault
    /\ compactions = 0
    /\ shutdown_calls = 0
    /\ stdout = << >>
    /\ sent = << >>
    /\ emitted = << >>
    /\ handled = << >>
    /\ tlog = << >>
    /\ scroll_before = UsizeMax

\* scroll_before after a step from a to b
ScrollBefore(a, b) ==
    IF Len(b.messages) > Len(a.messages) THEN a.scroll_offset ELSE scroll_before

InitProgram == app = AppAtLoopEntry /\ InitThreads

\* Option<String>
NoString == [some |-> FALSE, val |-> << >>]
SomeString(str) == [some |-> TRUE, val |-> str]

\* the session was built with the defaults: nothing on the command line
DefaultConfig == [provider |-> NoString, model |-> NoString, manifest_model |-> NoString]

\* from_config has not resolved anything yet
NotResolved == [provider |-> << >>, model |-> << >>, done |-> FALSE]

InitSession == cfg = DefaultConfig /\ resolved = NotResolved

Init ==
    /\ InitProgram
    /\ InitSession
    /\ c_line = << >>
    /\ c_out = NotCalled

(***************************************************************************)
(* agent_thread.rs: agent_loop, one action per blocking call or send.      *)
(***************************************************************************)
\* the process is alive: the thread can take steps
ProcessAlive == r_pc # "exited"

\* nothing was reported by the engine in this turn
NoResult == [turns |-> 0, total_tokens |-> 0]

TurnRecord(input, kind, arg) ==
    [ input |-> input, kind |-> kind, arg |-> arg, outcome |-> "", events |-> << >>,
      result |-> NoResult, closed |-> FALSE, stats0 |-> stats, stats1 |-> stats,
      compactions0 |-> compactions, compactions1 |-> compactions ]

LogEvent(log, e) ==
    [log EXCEPT ![Len(log)] =
        [@ EXCEPT !.events = Append(@, e),
                  !.closed = @ \/ IsClosing(e),
                  !.stats1 = stats,
                  !.compactions1 = compactions]]

LogOutcome(log, o) == [log EXCEPT ![Len(log)].outcome = o]

\* the engine returned Ok(res) in the turn in progress
LogResult(log, res) == [log EXCEPT ![Len(log)].outcome = "ok", ![Len(log)].result = res]

\* (mutant) event_tx.send(e).unwrap(): a failed send panics the thread
AfterSendUnwrap(ok, nxt) == IF ok THEN nxt ELSE "panicked"

\* `let _ = event_tx.send(e)`: the result of the send is dropped, the thread
\* goes on to nxt whether or not the receiver is still there
AfterSend(ok, nxt) == nxt

\* one event_tx.send(e)
Emit(e) ==
    /\ event_ch' = ChanSend(event_ch, e)
    /\ emitted' = Append(emitted, e)

\* (mutant) /model hands its line to the engine
ArmModelRunsTurn(input, cmd) ==
    CASE input = << >>               -> [pc |-> "emit", todo |-> EmptyInputEvents, nxt |-> "recv"]
      [] cmd.kind \in {"NotACommand", "SwitchModel"}
                                     -> [pc |-> "turn", todo |-> << >>, nxt |-> "recv"]
      [] cmd.kind = "Quit"           -> [pc |-> "emit", todo |-> QuitEvents, nxt |-> "shutdown"]
      [] cmd.kind = "Continue"       -> [pc |-> "emit", todo |-> ContinueEvents(input), nxt |-> "recv"]
      [] cmd.kind = "Clear"          -> [pc |-> "emit", todo |-> ClearEvents, nxt |-> "recv"]
      [] cmd.kind = "Compact"        -> [pc |-> "compact", todo |-> << >>, nxt |-> "recv"]
      [] cmd.kind = "Cost"           -> [pc |-> "emit", todo |-> CostEvents(stats), nxt |-> "recv"]
      [] cmd.kind = "ShellCommand"   -> [pc |-> "shell", todo |-> << >>, nxt |-> "recv"]

\* the arm of agent_loop taken for an input: where the thread goes and what it
\* has to send there
Arm(input, cmd) ==
    CASE input = << >>               -> [pc |-> "emit", todo |-> EmptyInputEvents, nxt |-> "recv"]
      [] cmd.kind = "NotACommand"    -> [pc |-> "turn", todo |-> << >>, nxt |-> "recv"]
      [] cmd.kind = "Quit"           -> [pc |-> "emit", todo |-> QuitEvents, nxt |-> "shutdown"]
      [] cmd.kind = "Continue"       -> [pc |-> "emit", todo |-> ContinueEvents(input), nxt |-> "recv"]
      [] cmd.kind = "Clear"          -> [pc |-> "emit", todo |-> ClearEvents, nxt |-> "recv"]
      [] cmd.kind = "SwitchModel"    -> [pc |-> "emit", todo |-> SwitchModelEvents(cmd.arg), nxt |-> "recv"]
      [] cmd.kind = "Compact"        -> [pc |-> "compact", todo |-> << >>, nxt |-> "recv"]
      [] cmd.kind = "Cost"           -> [pc |-> "emit", todo |-> CostEvents(stats), nxt |-> "recv"]
      [] cmd.kind = "ShellCommand"   -> [pc |-> "shell", todo |-> << >>, nxt |-> "recv"]

\* input_rx.recv() returns Ok(input): trim, classify, enter the arm
AgentRecv ==
    /\ ProcessAlive
    /\ a_pc = "recv"
    /\ input_ch.q # << >>
    /\ LET input == Trim(ChanHead(input_ch))
           cmd   == process_command(input)
           arm   == Arm(input, cmd)
       IN  /\ input_ch' = ChanPop(input_ch)
           /\ a_input' = input
           /\ a_pc' = arm.pc
           /\ a_todo' = arm.todo
           /\ a_next' = arm.nxt
           /\ a_count' = 0
           /\ stdout' = IF input # << >> /\ cmd.stdout # ""
                        THEN Append(stdout, cmd.stdout) ELSE stdout
           /\ tlog' = Append(tlog, TurnRecord(input, IF input = << >> THEN "Empty" ELSE cmd.kind,
                                             IF input = << >> THEN << >> ELSE cmd.arg))
    /\ UNCHANGED << pureVars, mainVars, event_ch, stats, compactions, shutdown_calls, sent, emitted >>

\* input_rx.recv() returns Err: the sender is gone and the queue is empty
AgentRecvClosed ==
    /\ ProcessAlive
    /\ a_pc = "recv"
    /\ input_ch.q = << >>
    /\ ~input_ch.tx
    /\ a_pc' = "shutdown"
    /\ UNCHANGED << pureVars, mainVars, input_ch, event_ch, a_input, a_todo, a_next, a_count,
                    stats, compactions, shutdown_calls, stdout, sent, emitted, tlog >>

\* the next send of the arm
AgentSend ==
    /\ ProcessAlive
    /\ a_pc = "emit"
    /\ a_todo # << >>
    /\ Emit(Head(a_todo))
    /\ tlog' = LogEvent(tlog, Head(a_todo))
    /\ a_todo' = Tail(a_todo)
    /\ a_pc' = AfterSend(SendOk(event_ch), IF Tail(a_todo) = << >> THEN a_next ELSE "emit")
    /\ UNCHANGED << pureVars, mainVars, input_ch, a_input, a_next, a_count, stats, compactions,
                    shutdown_calls, stdout, sent >>

\* session.run_turn_with_events: the engine pushes an event while it runs
EngineEmit ==
    /\ ProcessAlive
    /\ a_pc = "turn"
    /\ a_count < MaxEngineEvents
    /\ \E e \in EngineEvents :
          /\ Emit(e)
          /\ tlog' = LogEvent(tlog, e)
    /\ a_count' = a_count + 1
    /\ UNCHANGED << pureVars, mainVars, input_ch, a_pc, a_input, a_todo, a_next, stats,
                    compactions, shutdown_calls, stdout, sent >>

\* session.run_turn_with_events returns Ok with one of results: the counters
\* were accumulated
TurnOkWith(results) ==
    /\ ProcessAlive
    /\ a_pc = "turn"
    /\ \E res \in results :
          LET st == AccumulateStats(stats, res.turns, res.total_tokens)
          IN  /\ stats' = st
              /\ a_todo' = TurnOkEvents(st)
              /\ a_next' = IF ShouldAutoCompact(st) THEN "autocompact" ELSE "recv"
              /\ tlog' = LogResult(tlog, res)
    /\ a_pc' = "emit"
    /\ UNCHANGED << pureVars, mainVars, input_ch, event_ch, a_input, a_count, compactions,
                    shutdown_calls, stdout, sent, emitted >>

TurnOk == TurnOkWith(EngineResults)

\* session.run_turn_with_events returns Err
TurnErr ==
    /\ ProcessAlive
    /\ a_pc = "turn"
    /\ a_todo' = TurnErrEvents
    /\ a_next' = "recv"
    /\ a_pc' = "emit"
    /\ tlog' = LogOutcome(tlog, "err")
    /\ UNCHANGED << pureVars, mainVars, input_ch, event_ch, a_input, a_count, stats, compactions,
                    shutdown_calls, stdout, sent, emitted >>

\* session.compact_with_callback(|_| {}) after a turn: progress is dropped
AutoCompact ==
    /\ ProcessAlive
    /\ a_pc = "autocompact"
    /\ compactions' = compactions + 1
    /\ a_todo' = AutoCompactEvents(stats)
    /\ a_next' = "recv"
    /\ a_pc' = "emit"
    /\ UNCHANGED << pureVars, mainVars, input_ch, event_ch, a_input, a_count, stats,
                    shutdown_calls, stdout, sent, emitted, tlog >>

\* /compact: the callback re-emits one progress string
CompactProgress ==
    /\ ProcessAlive
    /\ a_pc = "compact"
    /\ a_count < MaxProgress
    /\ \E m \in ProgressStrings :
          /\ Emit(SystemMessage(m))
          /\ tlog' = LogEvent(tlog, SystemMessage(m))
    /\ a_count' = a_count + 1
    /\ UNCHANGED << pureVars, mainVars, input_ch, a_pc, a_input, a_todo, a_next, stats,
                    compactions, shutdown_calls, stdout, sent >>

\* /compact: session.compact_with_callback returns
CompactReturn ==
    /\ ProcessAlive
    /\ a_pc = "compact"
    /\ compactions' = compactions + 1
    /\ a_todo' = CompactEndEvents
    /\ a_next' = "recv"
    /\ a_pc' = "emit"
    /\ UNCHANGED << pureVars, mainVars, input_ch, event_ch, a_input, a_count, stats,
                    shutdown_calls, stdout, sent, emitted, tlog >>

\* the subordinate shell returns
ShellReturn ==
    /\ ProcessAlive
    /\ a_pc = "shell"
    /\ \E res \in ShellResults :
          /\ a_todo' = ShellEvents(res)
          /\ tlog' = LogOutcome(tlog, IF res.ok THEN "ok" ELSE "err")
    /\ a_next' = "recv"
    /\ a_pc' = "emit"
    /\ UNCHANGED << pureVars, mainVars, input_ch, event_ch, a_input, a_count, stats, compactions,
                    shutdown_calls, stdout, sent, emitted >>

\* after the loop: `let _ = session.shutdown()`, then the thread ends and its
\* ends of the channels are dropped
AgentShutdown ==
    /\ ProcessAlive
    /\ a_pc = "shutdown"
    /\ shutdown_calls' = shutdown_calls + 1
    /\ a_pc' = "exited"
    /\ event_ch' = DropSender(event_ch)
    /\ input_ch' = DropReceiver(input_ch)
    /\ UNCHANGED << pureVars, mainVars, a_input, a_todo, a_next, a_count, stats, compactions,
                    stdout, sent, emitted, tlog >>

\* the steps of the agent thread outside the /compact and the shell arms
AgentTurns ==
    \/ AgentRecv
    \/ AgentRecvClosed
    \/ AgentSend
    \/ EngineEmit
    \/ TurnOk
    \/ TurnErr
    \/ AutoCompact
    \/ AgentShutdown

\* the steps of the agent thread outside the /compact arm
AgentCore == AgentTurns \/ ShellReturn

AgentNext ==
    \/ AgentCore
    \/ CompactProgress
    \/ CompactReturn

(***************************************************************************)
(* main.rs: handle_key_event.                                              *)
(***************************************************************************)
\* (mutant) Ctrl+C quits whether or not the agent is busy
CtrlCAlwaysQuits(a) == [a EXCEPT !.should_quit = TRUE]

\* Ctrl+C: quit if idle, ignore if busy
CtrlCEffect(a) == IF ~a.agent_busy THEN [a EXCEPT !.should_quit = TRUE] ELSE a

\* Ctrl+D: quit
CtrlDEffect(a) == [a EXCEPT !.should_quit = TRUE]

\* the arms of handle_key_event that touch only the App
KeyEffect(a, key) ==
    CASE key = "CtrlC"     -> CtrlCEffect(a)
      [] key = "CtrlD"     -> CtrlDEffect(a)
      [] key = "CtrlL"     -> clear_messages(a)
      [] key = "Backspace" -> delete_char_before(a)
      [] key = "Delete"    -> delete_char_after(a)
      [] key = "Left"      -> move_cursor_left(a)
      [] key = "Right"     -> move_cursor_right(a)
      [] key = "Up"        -> history_up(a)
      [] key = "Down"      -> history_down(a)
      [] key = "Home"      -> move_cursor_home(a)
      [] key = "End"       -> move_cursor_end(a)
      [] key = "PageUp"    ->
            LET a1 == IF a.scroll_offset = UsizeMax
                      THEN [a EXCEPT !.scroll_offset = SatSub(Len(a.messages), 10)]
                      ELSE a
            IN  [a1 EXCEPT !.scroll_offset = SatSub(@, 10)]
      [] key = "PageDown"  ->
            [a EXCEPT !.scroll_offset = IF @ = UsizeMax THEN UsizeMax ELSE @ + 10]
      [] OTHER             -> a

\* (mutant) the Enter arm without its `if app.agent_busy { return; }`
EnterDispatchesWhileBusy(a) == SubmitText(a) # << >>

\* the Enter arm dispatches: the agent is not busy and submit_input returns Some
EnterDispatches(a) == ~a.agent_busy /\ SubmitText(a) # << >>

\* (mutant) the Enter arm calls submit_input before it looks at agent_busy
EnterSubmitsBeforeBusyCheck(a) ==
    IF EnterDispatches(a)
    THEN [add_message(submit_input(a), UserMsg(SubmitText(a)))
            EXCEPT !.agent_busy = TRUE, !.thinking = TRUE]
    ELSE submit_input(a)

\* the App after the Enter arm
EnterEffect(a) ==
    IF EnterDispatches(a)
    THEN [add_message(submit_input(a), UserMsg(SubmitText(a)))
            EXCEPT !.agent_busy = TRUE, !.thinking = TRUE]
    ELSE a

\* the second `if app.should_quit { break; }` of the loop
AfterKey(a) == IF a.should_quit THEN "restore" ELSE "draw"

\* a key of one of the App-only arms is read and handled
KeyLocal(key) ==
    /\ r_pc = "poll"
    /\ app' = KeyEffect(app, key)
    /\ last_key' = key
    /\ r_pc' = AfterKey(app')
    /\ UNCHANGED << pureVars, r_ret, term, handled, input_ch, event_ch, agentVars, sent >>

KeyCtrlC == KeyLocal("CtrlC")

KeyCtrlD == KeyLocal("CtrlD")

KeyCtrlL == KeyLocal("CtrlL")

IsPrefix(p, s) == Len(p) <= Len(s) /\ SubSeq(s, 1, Len(p)) = p

\* the lines the user types in the specification Spec, character by character
TypedLines ==
    { <<"a">>, S_q, <<"!", "l">> }

Typable(text, lines) == \E l \in lines : IsPrefix(text, l)

\* Char(c): insert_char at the cursor
KeyChar(lines) ==
    /\ r_pc = "poll"
    /\ \E c \in UNION { { l[i] : i \in 1..Len(l) } : l \in lines } :
          /\ Typable(insert_char(app, c).input, lines)
          /\ app' = insert_char(app, c)
    /\ last_key' = "Char"
    /\ r_pc' = AfterKey(app')
    /\ UNCHANGED << pureVars, r_ret, term, handled, input_ch, event_ch, agentVars, sent >>

KeyBackspace(lines) ==
    /\ Typable(delete_char_before(app).input, lines)
    /\ KeyLocal("Backspace")

\* Enter: nothing if the agent is busy or the input is blank; else the input is
\* submitted, shown as a User message, the busy flag set and the text sent
KeyEnter ==
    /\ r_pc = "poll"
    /\ EnterDispatches(app) => Len(sent) < MaxSubmits
    /\ app' = EnterEffect(app)
    /\ input_ch' = IF EnterDispatches(app) THEN ChanSend(input_ch, SubmitText(app))
                   ELSE input_ch
    /\ sent' = IF EnterDispatches(app) THEN Append(sent, SubmitText(app)) ELSE sent
    /\ last_key' = "Enter"
    /\ r_pc' = AfterKey(app')
    /\ scroll_before' = ScrollBefore(app, app')
    /\ UNCHANGED << c_line, c_out, cfg, resolved, r_ret, term, handled, event_ch, agentVars >>

(***************************************************************************)
(* main.rs: the render loop and what follows it.                           *)
(***************************************************************************)
\* terminal.draw(..)? returns Ok
Draw ==
    /\ r_pc = "draw"
    /\ r_pc' = "drain"
    /\ last_key' = "none"
    /\ UNCHANGED << pureVars, app, r_ret, term, handled, input_ch, event_ch, agentVars, sent >>

\* main returns (through `?` on an Err, or at its end): its locals are dropped,
\* input_tx and event_rx among them
MainReturns(ret) ==
    /\ r_ret' = ret
    /\ r_pc' = "returned"
    /\ input_ch' = DropSender(input_ch)
    /\ event_ch' = DropReceiver(event_ch)

\* terminal.draw(..)? returns Err: nothing is restored
DrawErr ==
    /\ r_pc = "draw"
    /\ MainReturns("err")
    /\ UNCHANGED << pureVars, app, term, last_key, handled, agentVars, sent >>

\* `while let Ok(evt) = event_rx.try_recv()`: one event is taken and handled
DrainOne ==
    /\ r_pc = "drain"
    /\ event_ch.q # << >>
    /\ app' = ProcessEvent(app, ChanHead(event_ch))
    /\ handled' = Append(handled, ChanHead(event_ch))
    /\ event_ch' = ChanPop(event_ch)
    /\ scroll_before' = ScrollBefore(app, app')
    /\ UNCHANGED << c_line, c_out, cfg, resolved, r_pc, r_ret, term, last_key, input_ch, agentVars, sent >>

\* (mutant) the loop without its first `if app.should_quit { break; }`
AfterDrainNoBreak(a) == "poll"

\* where the loop goes once try_recv finds nothing: the first
\* `if app.should_quit { break; }`
AfterDrain(a) == IF a.should_quit THEN "restore" ELSE "poll"

\* (mutant) the drain loop calls recv: it ends only when the sender is gone
DrainEndBlocking ==
    /\ r_pc = "drain"
    /\ event_ch.q = << >>
    /\ ~event_ch.tx
    /\ r_pc' = IF app.should_quit THEN "restore" ELSE "poll"
    /\ UNCHANGED << pureVars, app, r_ret, term, last_key, handled, input_ch, event_ch, agentVars, sent >>

\* try_recv returns Err (empty or disconnected): the drain loop ends
DrainEnd ==
    /\ r_pc = "drain"
    /\ event_ch.q = << >>
    /\ r_pc' = AfterDrain(app)
    /\ UNCHANGED << pureVars, app, r_ret, term, last_key, handled, input_ch, event_ch, agentVars, sent >>

\* event::poll times out, or the event read is not a key
PollTimeout ==
    /\ r_pc = "poll"
    /\ r_pc' = "draw"
    /\ UNCHANGED << pureVars, app, r_ret, term, last_key, handled, input_ch, event_ch, agentVars, sent >>

\* event::poll(..)? or event::read()? returns Err: nothing is restored
PollErr ==
    /\ r_pc = "poll"
    /\ MainReturns("err")
    /\ UNCHANGED << pureVars, app, term, last_key, handled, agentVars, sent >>

\* what disable_raw_mode()?, execute!(LeaveAlternateScreen)? and show_cursor()?
\* leave of the terminal when the first of them to fail is `fail`
Restored(fail) == [raw |-> fail = "raw", alt |-> fail \in {"raw", "alt"}]

\* after the loop: the terminal is restored, each step may fail and return
\* from main; then println and Ok(())
Restore ==
    /\ r_pc = "restore"
    /\ \E fail \in {"none", "raw", "alt", "cursor"} :
          /\ term' = Restored(fail)
          /\ MainReturns(IF fail = "none" THEN "ok" ELSE "err")
    /\ UNCHANGED << pureVars, app, last_key, handled, agentVars, sent >>

\* the process exits once main has returned; the agent thread was never
\* joined (spawn drops its JoinHandle) and ends wherever it is
ProcessExit ==
    /\ r_pc = "returned"
    /\ r_pc' = "exited"
    /\ UNCHANGED << pureVars, app, r_ret, term, last_key, handled, input_ch, event_ch, agentVars, sent >>

\* the render loop but for the typing of characters
MainLoop ==
    \/ Draw
    \/ DrawErr
    \/ DrainOne
    \/ DrainEnd
    \/ PollTimeout
    \/ PollErr
    \/ KeyCtrlC
    \/ KeyCtrlD
    \/ KeyEnter
    \/ Restore
    \/ ProcessExit

MainNext ==
    \/ MainLoop
    \/ KeyChar(TypedLines)
    \/ KeyBackspace(TypedLines)

\* The whole program.  The lines typed are those of TypedLines, none of which
\* reaches the /compact arm.
Next == MainNext \/ AgentCore

Spec == Init /\ [][Next]_vars

\* the lines the user types in the specification FairSpec
LiveLines == { <<"a">>, S_q }

MainLive == MainLoop \/ KeyChar(LiveLines)

NextLive == MainLive \/ AgentTurns

(***************************************************************************)
(* The render loop with every key of handle_key_event, next to an agent    *)
(* thread whose steps may take any time.                                   *)
(***************************************************************************)
\* the largest finite scroll_offset from which PageDown is still pressed
MaxScroll == 10

\* lines dispatched
MaxKeySubmits == 1

KeyLines == { <<"a">> }

LocalKeys ==
    { "CtrlL", "Backspace", "Delete", "Left", "Right", "Up", "Down", "Home", "End",
      "PageUp", "PageDown" }

\* a key of an editing, cursor, history, scroll or clear arm
KeyOther ==
    \E key \in LocalKeys :
        /\ key = "PageDown" => (app.scroll_offset = UsizeMax \/ app.scroll_offset < MaxScroll)
        /\ KeyLocal(key)

\* Enter, pressed until the first line has been dispatched
KeyEnterOnce ==
    /\ EnterDispatches(app) => Len(sent) < MaxKeySubmits
    /\ KeyEnter

\* the render loop when nothing fails
MainKeys ==
    \/ Draw
    \/ DrainOne
    \/ DrainEnd
    \/ PollTimeout
    \/ KeyChar(KeyLines)
    \/ KeyEnterOnce
    \/ KeyOther
    \/ KeyCtrlD
    \/ Restore
    \/ ProcessExit

\* the agent thread; one turn does not reach the auto-compaction threshold
AgentKeys ==
    \/ AgentRecv
    \/ AgentRecvClosed
    \/ AgentSend
    \/ EngineEmit
    \/ TurnOk
    \/ TurnErr
    \/ AgentShutdown

NextKeys == MainKeys \/ AgentKeys

SpecKeys == Init /\ [][NextKeys]_vars

\* Only the render loop is scheduled: poll returns after tick_rate at the
\* latest, while a step of the agent thread (a call into the engine) may
\* take for ever.
FairKeys == Init /\ [][NextKeys]_vars /\ WF_vars(MainKeys)

\* Both threads are scheduled: the render loop keeps iterating (poll times out
\* after tick_rate) and the agent thread takes its next step, the calls into
\* the engine included, whenever it has one.
FairSpec == Init /\ [][NextLive]_vars /\ WF_vars(MainLive) /\ WF_vars(AgentTurns)

(***************************************************************************)
(* The render loop with a line typed with blanks around it.                *)
(***************************************************************************)
SendLines == { <<" ", "a", " ">> }

NextSend == MainLoop \/ KeyChar(SendLines) \/ AgentTurns

SpecSend == Init /\ [][NextSend]_vars

(***************************************************************************)
(* agent_loop on its own: any sender may put any line on the inbound       *)
(* channel, any receiver may take the events, and either may go away.      *)
(***************************************************************************)
AgentLines ==
    { << >>, <<" ", "a", " ">>, S_q, S_qmark, S_cost, S_clear, S_compact,
      S_model \o <<" ", "m">>, <<"!", "l">>, <<"!", " ">> }

EnvSendFrom(lines, max) ==
    /\ input_ch.tx
    /\ Len(sent) < max
    /\ \E l \in lines :
          /\ input_ch' = ChanSend(input_ch, l)
          /\ sent' = Append(sent, l)
    /\ UNCHANGED << pureVars, mainVars, event_ch, agentVars >>

EnvSend == EnvSendFrom(AgentLines, MaxSends)

\* the receiver takes the oldest event and handles it as the render loop does
EnvRecv ==
    /\ event_ch.rx
    /\ event_ch.q # << >>
    /\ app' = ProcessEvent(app, ChanHead(event_ch))
    /\ handled' = Append(handled, ChanHead(event_ch))
    /\ event_ch' = ChanPop(event_ch)
    /\ scroll_before' = ScrollBefore(app, app')
    /\ UNCHANGED << c_line, c_out, cfg, resolved, r_pc, r_ret, term, last_key, input_ch, agentVars, sent >>

EnvDropSender ==
    /\ input_ch.tx
    /\ input_ch' = DropSender(input_ch)
    /\ UNCHANGED << pureVars, mainVars, event_ch, agentVars, sent >>

EnvDropReceiver ==
    /\ event_ch.rx
    /\ event_ch' = DropReceiver(event_ch)
    /\ UNCHANGED << pureVars, mainVars, input_ch, agentVars, sent >>

EnvNext ==
    \/ EnvSend
    \/ EnvRecv
    \/ EnvDropSender
    \/ EnvDropReceiver

NextAgent == EnvNext \/ AgentNext

SpecAgent == Init /\ [][NextAgent]_vars

(***************************************************************************)
(* The auto-compaction policy: agent_loop fed with ordinary messages only, *)
(* the engine reporting one or several turns and few or many tokens.       *)
(***************************************************************************)
\* ordinary messages the environment may send
MaxPolicySends == 3

PolicyLines == { <<"a">> }

PolicyResults == [turns : {1, 3}, total_tokens : {80000, 160001}]

TurnOkPolicy == TurnOkWith(PolicyResults)

EnvSendPolicy == EnvSendFrom(PolicyLines, MaxPolicySends)

NextPolicy ==
    \/ EnvSendPolicy
    \/ EnvRecv
    \/ AgentRecv
    \/ AgentSend
    \/ TurnOkPolicy
    \/ TurnErr
    \/ AutoCompact

SpecPolicy == Init /\ [][NextPolicy]_vars

(***************************************************************************)
(* The classifier: process_command called with one line out of a set of    *)
(* lines, and the same line given to agent_loop.                           *)
(***************************************************************************)
\* times the line is sent to the agent thread
MaxClassifySends == 1

ClassifyPads == { << >>, <<" ">> }

ClassifyWords ==
    { << >>, <<"a">>, <<"a", "/">>, <<"q">>, <<"!">>, <<"!", "l">>, <<"/">>, <<"/", "z">>,
      S_quit, S_exit, S_q, S_clear, S_model, S_help, S_qmark, S_compact, S_cost,
      S_quit \o <<"x">>, S_q \o <<"a">>, S_help \o <<"x">> }

ClassifyTails ==
    { << >>, <<" ">>, <<" ", "m">>, <<" ", " ", "m", " ">>, <<"\t">>, <<"\t", "l">> }

ClassifyLines ==
    { p \o w \o t : p \in ClassifyPads, w \in ClassifyWords, t \in ClassifyTails }

InitClassify ==
    /\ InitProgram
    /\ InitSession
    /\ c_line \in ClassifyLines
    /\ c_out = NotCalled

\* process_command(c_line): the result, and what the call printed
Classify ==
    /\ c_out = NotCalled
    /\ c_out' = process_command(c_line)
    /\ stdout' = IF process_command(c_line).stdout # ""
                 THEN Append(stdout, process_command(c_line).stdout) ELSE stdout
    /\ UNCHANGED << c_line, scroll_before, cfg, resolved, mainVars, input_ch, event_ch, a_pc, a_input, a_todo, a_next,
                    a_count, stats, compactions, shutdown_calls, sent, emitted, tlog >>

\* the line is submitted to the agent thread
SubmitLine == EnvSendFrom({c_line}, MaxClassifySends)

NextClassify ==
    \/ Classify
    \/ SubmitLine
    \/ EnvRecv
    \/ AgentRecv
    \/ AgentSend
    \/ EngineEmit
    \/ TurnOk
    \/ TurnErr
    \/ CompactProgress
    \/ CompactReturn
    \/ ShellReturn

SpecClassify == InitClassify /\ [][NextClassify]_vars

(***************************************************************************)
(* The input line and its history: the operations of app.rs applied in any *)
(* order, with characters of every UTF-8 width.  last_key names the        *)
(* operation applied last.                                                 *)
(***************************************************************************)
\* characters in the input line
MaxInputLen == 2
\* entries in input_history
MaxHistory == 2

\* one character of each UTF-8 width, and a blank
EditChars == { "/", " ", "U2", "U3", "U4" }

\* one operation of App, which leaves the App as b, is applied to the state
ApplyOp(name, b) ==
    /\ app' = b
    /\ last_key' = name
    /\ UNCHANGED << pureVars, r_pc, r_ret, term, handled, input_ch, event_ch, agentVars, sent >>

EditInsert ==
    /\ Len(app.input) < MaxInputLen
    /\ \E c \in EditChars : ApplyOp("Char", insert_char(app, c))

EditSubmit ==
    /\ SubmitText(app) # << >> => Len(app.input_history) < MaxHistory
    /\ ApplyOp("Submit", submit_input(app))

NextEdit ==
    \/ EditInsert
    \/ EditSubmit
    \/ ApplyOp("Backspace", delete_char_before(app))
    \/ ApplyOp("Delete", delete_char_after(app))
    \/ ApplyOp("Left", move_cursor_left(app))
    \/ ApplyOp("Right", move_cursor_right(app))
    \/ ApplyOp("Home", move_cursor_home(app))
    \/ ApplyOp("End", move_cursor_end(app))
    \/ ApplyOp("Up", history_up(app))
    \/ ApplyOp("Down", history_down(app))

SpecEdit == Init /\ [][NextEdit]_vars

(***************************************************************************)
(* The sidebar lists: the tool events of the drain loop applied to an App  *)
(* whose recent_files and recent_tools hold any number of entries up to    *)
(* their capacity.                                                         *)
(***************************************************************************)
\* tool events handled
MaxRecentOps == 2

PathChars == << "a", "b", "c", "d", "e", "f", "g", "h", "i", "j", "k" >>

\* eleven paths, one more than recent_files holds
FilePath(i) == << ".", PathChars[i] >>

FullFiles == [i \in 1..10 |-> FilePath(i)]

ToolNames == << "t1", "t2", "t3", "t4", "t5", "t6", "t7", "t8", "t9" >>

FullTools == [i \in 1..8 |-> [name |-> ToolNames[i], success |-> i % 2 = 0]]

InitRecent ==
    /\ InitThreads
    /\ InitSession
    /\ c_line = << >>
    /\ c_out = NotCalled
    /\ \E k \in 0..10, n \in 0..8 :
          app = [AppAtLoopEntry EXCEPT !.recent_files = SubSeq(FullFiles, 1, k),
                                       !.recent_tools = SubSeq(FullTools, 1, n)]

\* one event is taken by the drain loop
HandleEvent(evt) ==
    /\ app' = ProcessEvent(app, evt)
    /\ handled' = Append(handled, evt)
    /\ scroll_before' = ScrollBefore(app, app')
    /\ UNCHANGED << c_line, c_out, cfg, resolved, r_pc, r_ret, term, last_key, input_ch, event_ch, agentVars, sent >>

HandleToolCallStarted ==
    /\ Len(handled) < MaxRecentOps
    /\ \E i \in 1..Len(PathChars) : HandleEvent(ToolCallStarted("read_file", FilePath(i)))

HandleToolCallCompleted ==
    /\ Len(handled) < MaxRecentOps
    /\ \E name \in { "t1", "t9" }, ok \in BOOLEAN : HandleEvent(ToolCallCompleted(name, ok))

NextRecent == HandleToolCallStarted \/ HandleToolCallCompleted

SpecRecent == InitRecent /\ [][NextRecent]_vars

(***************************************************************************)
(* session.rs: the provider and the model from_config resolves.  A string  *)
(* is a sequence of words and colons; a word stands for a run of           *)
(* characters without a colon, and no two words are adjacent.              *)
(***************************************************************************)
W_anthropic == << "anthropic" >>
W_ollama == << "ollama" >>
W_claude_cli == << "claude-cli" >>
W_sonnet == << "sonnet" >>
W_llama == << "llama3.2", ":", "3b" >>
W_mock == << "mock" >>

HasColon(m) == \E i \in 1..Len(m) : m[i] = ":"

FirstColon(m) == CHOOSE i \in 1..Len(m) : m[i] = ":" /\ \A j \in 1..(i - 1) : m[j] # ":"

\* str::split_once(':'), for a string with a colon
SplitOncePfx(m) == SubSeq(m, 1, FirstColon(m) - 1)
SplitOnceRest(m) == SubSeq(m, FirstColon(m) + 1, Len(m))

\* the manifest's model, None for "mock" and without a manifest
manifest_model(mm) == IF mm.some /\ mm.val # W_mock THEN mm ELSE NoString

\* cfg.model.or(manifest_model)
raw_model(c) == IF c.model.some THEN c.model ELSE manifest_model(c.manifest_model)

\* the match on (provider_from_cli, raw_model)
ResolveProviderModel(po, mo) ==
    CASE po.some /\ mo.some ->
            [provider |-> po.val,
             model |-> IF HasColon(mo.val) /\ StartsWith(mo.val, po.val \o <<":">>)
                       THEN SplitOnceRest(mo.val) ELSE mo.val]
      [] ~po.some /\ mo.some ->
            IF HasColon(mo.val)
               /\ SplitOncePfx(mo.val) \in {W_anthropic, W_ollama, W_claude_cli}
            THEN [provider |-> SplitOncePfx(mo.val), model |-> SplitOnceRest(mo.val)]
            ELSE [provider |-> W_ollama, model |-> mo.val]
      [] po.some /\ ~mo.some ->
            [provider |-> po.val,
             model |-> IF po.val \in {W_anthropic, W_claude_cli} THEN W_sonnet ELSE W_llama]
      [] OTHER -> [provider |-> W_ollama, model |-> W_llama]

\* what --provider is given
ConfigProviders ==
    { W_anthropic, W_ollama, W_claude_cli, << "x" >>, << >>, << "x", ":", "y" >> }

\* what --model or the manifest's model field is given
ConfigModels ==
    { << "m" >>, W_mock, << >>, << ":" , "m" >>, << "x", ":", "m" >>,
      << "x", ":", "y", ":", "m" >>, << "x", ":", "y" >>,
      W_anthropic \o << ":", "m" >>, W_ollama \o << ":", "m", ":", "3b" >>,
      W_claude_cli \o << ":" >>, W_anthropic }

OptionOf(S) == { NoString } \cup { SomeString(str) : str \in S }

InitResolve ==
    /\ InitProgram
    /\ c_line = << >>
    /\ c_out = NotCalled
    /\ cfg \in [provider : OptionOf(ConfigProviders), model : OptionOf(ConfigModels),
                 manifest_model : OptionOf({ << "m" >>, W_mock, W_ollama \o << ":", "m" >> })]
    /\ resolved = NotResolved

\* Session::from_config resolves the provider and the model
Resolve ==
    /\ ~resolved.done
    /\ resolved' = [provider |-> ResolveProviderModel(cfg.provider, raw_model(cfg)).provider,
                    model |-> ResolveProviderModel(cfg.provider, raw_model(cfg)).model,
                    done |-> TRUE]
    /\ UNCHANGED << c_line, c_out, scroll_before, cfg, mainVars, input_ch, event_ch, agentVars, sent >>

NextResolve == Resolve

SpecResolve == InitResolve /\ [][NextResolve]_vars

(***************************************************************************)
(* Properties.                                                             *)
(***************************************************************************)
\* the agent thread is inside the body of its loop, working on an input
AgentInTurn == a_pc \in {"emit", "turn", "autocompact", "compact", "shell"}

CountType(evts, t) == Cardinality({ i \in 1..Len(evts) : evts[i].type = t })

CountClosing(evts) == Cardinality({ i \in 1..Len(evts) : IsClosing(evts[i]) })

\* C1: at most one user input is outstanding in every reachable state: the
\* strings queued on the inbound channel plus the one the agent thread is
\* working on are never more than 1.
C1_AtMostOneOutstanding ==
    Len(input_ch.q) + (IF AgentInTurn THEN 1 ELSE 0) <= 1

\* C1 witness: Enter was pressed on a non-empty input while the agent thread
\* was working on the one outstanding input.
C1_Witness ==
    /\ last_key = "Enter"
    /\ app.input # << >>
    /\ AgentInTurn
    /\ input_ch.q = << >>
    /\ Len(sent) = 1

\* C2: an Enter handled while agent_busy is true sends nothing and leaves
\* input, cursor_pos, input_history, history_index, messages and agent_busy
\* unchanged; and the strings sent never outnumber the Done events processed
\* by more than one (of two submissions with no Done between them only the
\* first is sent).
C2_EnterWhileBusy ==
    /\ [][ (r_pc = "poll" /\ last_key' = "Enter" /\ app.agent_busy) =>
             /\ input_ch' = input_ch
             /\ sent' = sent
             /\ app'.input = app.input
             /\ app'.cursor_pos = app.cursor_pos
             /\ app'.input_history = app.input_history
             /\ app'.history_index = app.history_index
             /\ app'.messages = app.messages
             /\ app'.agent_busy = app.agent_busy ]_vars
    /\ [](Len(sent) <= CountType(handled, "Done") + 1)

\* C2 witness: a second Enter, on a non-empty input, was handled while the
\* first submission's Done had not been processed; one string was sent.
C2_Witness ==
    /\ last_key = "Enter"
    /\ app.agent_busy
    /\ app.input # << >>
    /\ Len(app.input_history) = 1
    /\ Len(sent) = 1
    /\ CountType(handled, "Done") = 0

\* the turn the agent thread received last
LastTurn == tlog[Len(tlog)]

\* the closing events of a turn are at most one, and it is the turn's last event
ClosedOnceAtEnd(t) ==
    /\ CountClosing(t.events) <= 1
    /\ \A j \in 1..(Len(t.events) - 1) : ~IsClosing(t.events[j])
    /\ t.closed <=> CountClosing(t.events) = 1

\* C3: every string the agent thread receives (empty after trimming, slash
\* command, shell escape, or ordinary message with a succeeding or a failing
\* engine call) gets exactly one closing event, Done or Quit, and that event
\* is the last one of that input: a turn never has two closing events nor an
\* event after its closing event, a turn is closed before the next string is
\* received, and the thread is back at recv (or past its loop) only with the
\* turn closed.
C3_ExactlyOneClosingEvent ==
    /\ \A i \in 1..Len(tlog) :
          /\ ClosedOnceAtEnd(tlog[i])
          /\ i < Len(tlog) => tlog[i].closed
    /\ (tlog # << >> /\ ~AgentInTurn) => LastTurn.closed
    /\ CountClosing(emitted) = Cardinality({ i \in 1..Len(tlog) : tlog[i].closed })

\* C3 witness: an ordinary message whose engine call succeeded and crossed
\* the compaction threshold was closed by a single Done, sent after the
\* compaction notice, and the thread is back at recv.
C3_Witness ==
    /\ Len(tlog) = 2
    /\ tlog[1].closed
    /\ tlog[2].kind = "NotACommand"
    /\ tlog[2].outcome = "ok"
    /\ CountType(tlog[2].events, "SystemMessage") = 1
    /\ tlog[2].closed
    /\ a_pc = "recv"

\* a turn whose engine call failed
IsFailedTurn(t) == t.kind = "NotACommand" /\ t.outcome = "err"

\* C7: after a failed engine call the thread sends exactly one Error and then
\* Done, sends no TokenUpdate and no compaction notice, runs no compaction,
\* leaves the session counters as they were, and is back at recv for the next
\* input; the failure does not end the loop.
C7_EngineErrorTurn ==
    \A i \in 1..Len(tlog) :
        IsFailedTurn(tlog[i]) =>
            LET t == tlog[i]
                n == Len(t.events)
            IN  /\ CountType(t.events, "Error") <= 1
                /\ CountType(t.events, "TokenUpdate") = 0
                /\ CountType(t.events, "SystemMessage") = 0
                /\ t.stats1 = t.stats0
                /\ t.compactions1 = t.compactions0
                /\ t.closed =>
                      /\ n >= 2
                      /\ t.events[n - 1] = ErrorEvt("engine_error")
                      /\ t.events[n] = Done
                /\ i = Len(tlog) =>
                      /\ ~t.closed => (a_pc = "emit" /\ stats = t.stats0
                                        /\ compactions = t.compactions0)
                      /\ t.closed => (a_pc = "recv" \/ ~input_ch.tx)
                      /\ a_pc \in {"shutdown", "exited"} => ~input_ch.tx

\* C7 witness: a failed turn was closed with Error, Done and the next input,
\* an ordinary message, was processed with a succeeding engine call.
C7_Witness ==
    /\ Len(tlog) = 2
    /\ IsFailedTurn(tlog[1])
    /\ tlog[1].events = <<ErrorEvt("engine_error"), Done>>
    /\ tlog[2].kind = "NotACommand"
    /\ tlog[2].outcome = "ok"
    /\ tlog[2].closed
    /\ CountType(tlog[2].events, "TokenUpdate") = 1

\* the loop was left through the Quit arm
EndedByQuit == tlog # << >> /\ LastTurn.kind = "Quit" /\ LastTurn.events = <<Quit>>

\* the loop was left because recv failed: the sender is gone and every string
\* sent was received
EndedByClose == ~input_ch.tx /\ Len(tlog) = Len(sent) /\ (tlog # << >> => LastTurn.closed)

\* C8: the agent loop ends only on a Quit command or when recv fails because
\* the sender was dropped; shutdown is called exactly once, after the loop;
\* nothing is sent after Quit; a send whose receiver is gone is ignored: it
\* queues nothing, does not panic and does not end the loop.
C8_LoopEndAndShutdown ==
    /\ [](/\ a_pc \in {"shutdown", "exited"} => (EndedByQuit \/ EndedByClose)
          /\ shutdown_calls = (IF a_pc = "exited" THEN 1 ELSE 0)
          /\ \A i \in 1..(Len(emitted) - 1) : emitted[i].type # "Quit"
          /\ a_pc # "panicked")
    /\ [][ (emitted' # emitted /\ ~event_ch.rx) =>
             /\ event_ch' = event_ch
             /\ a_pc' \in {"emit", "turn", "compact", "autocompact", "recv", "shutdown"}
             /\ a_pc' = "shutdown" => emitted' = Append(emitted, Quit) ]_vars

\* C8 witness: the receiver of the events went away before anything was
\* taken, two turns were still processed and closed, then the sender of the
\* inputs was dropped and the thread left its loop and called shutdown.
C8_Witness ==
    /\ a_pc = "exited"
    /\ shutdown_calls = 1
    /\ ~event_ch.rx
    /\ handled = << >>
    /\ Len(tlog) = 2
    /\ LastTurn.kind # "Quit"
    /\ LastTurn.closed
    /\ EndedByClose

\* C4 (as stated): agent_busy is true exactly when a dispatched input has not
\* yet had its Done or Quit processed by the render loop.
C4_BusyUntilDoneOrQuit ==
    app.agent_busy <=> (Len(sent) > CountClosing(handled))

\* C4 (amended): agent_busy is true exactly when a dispatched input has not
\* yet had its Done processed by the render loop; it becomes true only in the
\* Enter handler that sends the input and false only when the render loop
\* processes a Done, the one of the input sent last.  Processing Quit leaves
\* agent_busy as it is.
C4_BusyUntilDone ==
    /\ [](app.agent_busy <=> (Len(sent) > CountType(handled, "Done")))
    /\ [][ (~app.agent_busy /\ app'.agent_busy) =>
             /\ r_pc = "poll"
             /\ last_key' = "Enter"
             /\ sent' = Append(sent, SubmitText(app))
             /\ input_ch'.q = Append(input_ch.q, SubmitText(app)) ]_vars
    /\ [][ (app.agent_busy /\ ~app'.agent_busy) =>
             /\ handled' = Append(handled, Done)
             /\ CountType(handled', "Done") = Len(sent) ]_vars
    /\ [][ (handled' # handled /\ handled'[Len(handled')] = Quit) =>
             app'.agent_busy = app.agent_busy ]_vars

\* C4 witness: the render loop processed the Quit that closes a dispatched
\* /q and agent_busy is still true.
C4_Witness ==
    /\ app.agent_busy
    /\ Len(sent) = 1
    /\ handled # << >>
    /\ handled[Len(handled)] = Quit
    /\ app.should_quit

\* C5 (as stated): every dispatched input is eventually followed by a state
\* in which agent_busy is false or should_quit is true.
C5_BusyEventuallyCleared ==
    app.agent_busy ~> (~app.agent_busy \/ app.should_quit)

\* C5 (amended): every dispatched input is eventually followed by a state in
\* which agent_busy is false, or should_quit is true, or main has returned
\* the error of a failed terminal call (draw, poll or read).
C5_BusyClearedOrLoopLeft ==
    app.agent_busy ~> (~app.agent_busy \/ app.should_quit \/ r_ret = "err")

\* C5 witness: a dispatched input was answered, its Done was processed and
\* the render loop is running with agent_busy false.
C5_Witness ==
    /\ Len(sent) = 1
    /\ CountType(handled, "Done") = 1
    /\ ~app.agent_busy
    /\ ~app.should_quit
    /\ r_ret = "none"
    /\ r_pc = "poll"

\* C6: the render loop handles the events in the order the agent thread sent
\* them, each once: what was handled is a prefix of what was emitted, and
\* while the receiver lives, handled followed by the queue is what was emitted.
C6_HandledInOrder ==
    /\ IsPrefix(handled, emitted)
    /\ event_ch.rx => handled \o event_ch.q = emitted

\* C6 witness: the three events of an answered turn were handled, in order.
C6_Witness ==
    /\ Len(handled) = 3
    /\ handled = emitted
    /\ handled[1].type = "Response"
    /\ handled[2].type = "TokenUpdate"
    /\ handled[3].type = "Done"

\* C9 (as stated): when the render loop was left by a quit key (should_quit
\* set by Ctrl+C or Ctrl+D, no Quit event handled) and the process has
\* terminated, the agent thread has left its loop and called shutdown.
C9_ShutdownBeforeExit ==
    (r_pc = "exited" /\ app.should_quit /\ CountType(handled, "Quit") = 0)
        => (a_pc = "exited" /\ shutdown_calls = 1)

\* C10: Ctrl+C while agent_busy changes nothing of the App; Ctrl+C while idle
\* sets should_quit and nothing else; Ctrl+D sets should_quit, busy or not,
\* and nothing else; neither sends anything to the agent thread.
C10_QuitKeys ==
    [][ (r_pc = "poll" /\ last_key' \in {"CtrlC", "CtrlD"}) =>
          /\ input_ch' = input_ch
          /\ sent' = sent
          /\ (last_key' = "CtrlC" /\ app.agent_busy) => app' = app
          /\ (last_key' = "CtrlC" /\ ~app.agent_busy) =>
                app' = [app EXCEPT !.should_quit = TRUE]
          /\ last_key' = "CtrlD" => app' = [app EXCEPT !.should_quit = TRUE] ]_vars

\* C10 witness: Ctrl+C was handled while the agent was busy and the loop
\* goes on.
C10_Witness ==
    /\ last_key = "CtrlC"
    /\ app.agent_busy
    /\ ~app.should_quit
    /\ r_pc = "draw"

\* a turn whose engine call succeeded
IsOkTurn(t) == t.kind = "NotACommand" /\ t.outcome = "ok"

\* the compaction ran in this turn, and its notice was sent
Compacted(t) ==
    /\ t.compactions1 = t.compactions0 + 1
    /\ CountType(t.events, "SystemMessage") = 1

\* no compaction ran in this turn, and no notice was sent
NotCompacted(t) ==
    /\ t.compactions1 = t.compactions0
    /\ CountType(t.events, "SystemMessage") = 0

\* the policy on the counters: after a successful turn the compaction runs
\* exactly when the prompt-token counter is above 160,000 and the turn
\* counter is at least 3
PolicyOnCounters ==
    \A i \in 1..Len(tlog) :
        (IsOkTurn(tlog[i]) /\ tlog[i].closed) =>
            IF tlog[i].stats1.total_prompt_tokens > 160000 /\ tlog[i].stats1.total_turns >= 3
            THEN Compacted(tlog[i])
            ELSE NotCompacted(tlog[i])

\* C11 (as stated): the policy on the counters, and no compaction during the
\* first or the second user turn of the session.
C11_PolicyAndUserTurns ==
    /\ PolicyOnCounters
    /\ \A i \in 1..Len(tlog) : i <= 2 => tlog[i].compactions1 = tlog[i].compactions0

\* C11 (amended): after a successful turn auto-compaction runs if and only if
\* the prompt-token counter is above 160,000 and the turn counter is at least
\* 3: not at exactly 160,000 tokens, and not while the turn counter is 1 or
\* 2 however high the token count is.  The turn counter grows by the turns
\* the engine reports, which may be several for one user turn.
C11_PolicyOnCounters ==
    /\ PolicyOnCounters
    /\ \A i \in 1..Len(tlog) :
          tlog[i].stats1.total_turns <= 2 => tlog[i].compactions1 = tlog[i].compactions0
    /\ \A i \in 1..Len(tlog) :
          tlog[i].stats1.total_prompt_tokens <= 160000 =>
              tlog[i].compactions1 = tlog[i].compactions0

\* C11 witness: a successful turn ended with exactly 160,000 prompt tokens
\* and at least 3 turns counted, and no compaction ran.
C11_Witness ==
    /\ tlog # << >>
    /\ IsOkTurn(LastTurn)
    /\ LastTurn.closed
    /\ LastTurn.stats1.total_prompt_tokens = 160000
    /\ LastTurn.stats1.total_turns >= 3
    /\ NotCompacted(LastTurn)

\* C12: the session counters never decrease, and they change only when an
\* engine call of an ordinary message returns Ok: a failed turn, an empty
\* input, a slash command, a shell escape and the compaction leave them as
\* they were.
C12_CountersMonotone ==
    /\ [][ /\ stats'.total_prompt_tokens >= stats.total_prompt_tokens
           /\ stats'.total_completion_tokens >= stats.total_completion_tokens
           /\ stats'.total_turns >= stats.total_turns
           /\ stats' # stats =>
                 /\ a_pc = "turn"
                 /\ LastTurn.kind = "NotACommand"
                 /\ LastTurn'.outcome = "ok" ]_vars
    /\ [](\A i \in 1..Len(tlog) : ~IsOkTurn(tlog[i]) => tlog[i].stats1 = tlog[i].stats0)
    /\ [][ compactions' # compactions => stats' = stats ]_vars

\* C12 witness: a turn succeeded and raised the counters, then a /compact
\* was processed and closed with the counters as the turn left them.
C12_Witness ==
    /\ Len(tlog) = 2
    /\ IsOkTurn(tlog[1])
    /\ tlog[1].stats1.total_turns > 0
    /\ tlog[2].kind = "Compact"
    /\ tlog[2].closed
    /\ tlog[2].compactions1 = tlog[2].compactions0 + 1
    /\ stats = tlog[1].stats1

\* the clear sentinel as an event
ClearSentinel == SystemMessage("__clear__")

\* the events of the first n turns, counted
RECURSIVE EventsUpTo(_)
EventsUpTo(n) == IF n = 0 THEN 0 ELSE EventsUpTo(n - 1) + Len(tlog[n].events)

\* the turn in which the k-th event was sent
TurnOfEvent(k) ==
    CHOOSE i \in 1..Len(tlog) : EventsUpTo(i - 1) < k /\ k <= EventsUpTo(i)

\* C13 (as stated): the message log only grows by appending, except when the
\* user clears it with Ctrl+L or with /clear: a step that handles an event of
\* any other turn, a shell escape's output included, keeps every message
\* there was, in order.
C13_AppendOnlyButClear ==
    [][ \/ IsPrefix(app.messages, app'.messages)
        \/ last_key' = "CtrlL"
        \/ /\ handled' # handled
           /\ tlog[TurnOfEvent(Len(handled'))].kind = "Clear" ]_vars

\* C14: for /clear the agent thread sends the clear sentinel and then Done
\* and calls neither the engine nor the shell; when the sentinel is handled
\* the message log is emptied and the scroll position set to 0; the sentinel
\* is never shown as a message.
C14_ClearCommand ==
    /\ [](\A i \in 1..Len(tlog) :
            tlog[i].kind = "Clear" =>
                /\ IsPrefix(tlog[i].events, <<ClearSentinel, Done>>)
                /\ tlog[i].closed => tlog[i].events = <<ClearSentinel, Done>>
                /\ tlog[i].stats1 = tlog[i].stats0
                /\ tlog[i].compactions1 = tlog[i].compactions0
                /\ i = Len(tlog) => a_pc \in {"emit", "recv", "shutdown", "exited"})
    /\ [][ (handled' # handled /\ handled'[Len(handled')] = ClearSentinel) =>
             /\ app'.messages = << >>
             /\ app'.scroll_offset = 0 ]_vars
    /\ [](\A j \in 1..Len(app.messages) :
            app.messages[j].type = "System" => app.messages[j].text # "__clear__")

\* C14 witness: /clear was received and closed, its sentinel was handled and
\* the two messages shown at the start are gone.
C14_Witness ==
    /\ Len(tlog) = 1
    /\ tlog[1].kind = "Clear"
    /\ tlog[1].closed
    /\ handled = <<ClearSentinel>>
    /\ app.messages = << >>
    /\ app.scroll_offset = 0

\* C15 (as stated): a /cost input gets one system notice with the cost
\* breakdown and then Done, with no engine call, no compaction and the
\* counters unchanged; with no turn completed the breakdown reports 0 turns,
\* 0 input tokens, 0 output tokens and a cost of 0.
C15_CostCommand ==
    \A i \in 1..Len(tlog) :
        (tlog[i].input = S_cost /\ tlog[i].closed) =>
            /\ Len(tlog[i].events) = 2
            /\ tlog[i].events[1].type = "SystemMessage"
            /\ tlog[i].events[1].text = "cost_breakdown"
            /\ tlog[i].events[2] = Done
            /\ tlog[i].stats1 = tlog[i].stats0
            /\ tlog[i].compactions1 = tlog[i].compactions0
            /\ tlog[i].stats0 = StatsDefault =>
                  SubSeq(tlog[i].events[1].info, 1, 4) = <<0, 0, 0, 0>>

\* the line is `!` with nothing but whitespace around it
IsBareBang(line) ==
    \E i \in 1..Len(line) :
        line[i] = "!" /\ \A j \in (1..Len(line)) \ {i} : IsWs(line[j])

\* C16: ShellCommand(text) is returned only with a text that is not empty and
\* has no whitespace at either end; `!` followed by nothing or by whitespace
\* only classifies as Continue; the agent thread is never in the shell call
\* with an empty command.
C16_ShellCommandNonEmpty ==
    /\ c_out.kind = "ShellCommand" =>
          /\ c_out.arg # << >>
          /\ ~IsWs(c_out.arg[1])
          /\ ~IsWs(c_out.arg[Len(c_out.arg)])
    /\ (c_out # NotCalled /\ IsBareBang(c_line)) => c_out.kind = "Continue"
    /\ a_pc = "shell" =>
          /\ LastTurn.kind = "ShellCommand"
          /\ LastTurn.arg # << >>
          /\ ~IsWs(LastTurn.arg[1])
          /\ ~IsWs(LastTurn.arg[Len(LastTurn.arg)])
    /\ \A i \in 1..Len(tlog) : IsBareBang(tlog[i].input) => tlog[i].kind = "Continue"

\* C16 witness: ` !l ` was classified as ShellCommand("l") and the agent
\* thread is in the shell call with that command.
C16_Witness ==
    /\ c_line = <<" ", "!", "l", " ">>
    /\ c_out = CmdResult("ShellCommand", <<"l">>, "")
    /\ a_pc = "shell"
    /\ LastTurn.arg = <<"l">>

\* the literals that quit
QuitWords == { S_quit, S_exit, S_q }

\* C17 (as stated): every input that starts with /quit, /q or /exit
\* classifies as Quit.
C17_StartsWithQuit ==
    (c_out # NotCalled /\ \E w \in QuitWords : StartsWith(c_line, w))
        => c_out.kind = "Quit"

\* C17 (amended): every input whose trimmed form is /quit, /q or /exit, or
\* one of them followed by a space and anything, classifies as Quit.
C17_QuitWord ==
    (c_out # NotCalled /\
     \E w \in QuitWords : Trim(c_line) = w \/ StartsWith(Trim(c_line), w \o <<" ">>))
        => c_out.kind = "Quit"

\* C17 witness: ` /exit  m ` was classified as Quit.
C17_Witness ==
    /\ c_line = <<" ">> \o S_exit \o <<" ", " ", "m", " ">>
    /\ c_out.kind = "Quit"

\* C18: a line classifies as NotACommand exactly when its trimmed form does
\* not start with `!` or `/`.
C18_NotACommand ==
    c_out # NotCalled =>
        (c_out.kind = "NotACommand" <=>
            ~(Trim(c_line) # << >> /\ Trim(c_line)[1] \in {"!", "/"}))

\* C18 witness: ` a/ `, with its slash not in front, was classified as
\* NotACommand.
C18_Witness ==
    /\ c_line = <<" ", "a", "/", " ">>
    /\ c_out = CmdResult("NotACommand", << >>, "")

\* the variant the classifier is said to return for cmd and arg
StatedKind(cmd, arg) ==
    CASE cmd \in QuitWords -> "Quit"
      [] cmd = S_clear -> "Clear"
      [] cmd = S_model -> IF arg = << >> THEN "Continue" ELSE "SwitchModel"
      [] cmd \in {S_help, S_qmark} -> "Continue"
      [] cmd = S_compact -> "Compact"
      [] cmd = S_cost -> "Cost"
      [] OTHER -> "Continue"

\* C19 (as stated): a line starting with `/` classifies by its cmd and arg as
\* Quit, Clear, SwitchModel(arg) or Continue, Continue, Compact, Cost, and
\* Continue for every other cmd.
C19_SlashTable ==
    (c_out # NotCalled /\ StartsWith(Trim(c_line), <<"/">>)) =>
        LET k     == FirstSpace(Trim(c_line))
            cmd   == IF k = 0 THEN Trim(c_line) ELSE SubSeq(Trim(c_line), 1, k - 1)
            arg   == IF k = 0 THEN << >>
                     ELSE Trim(SubSeq(Trim(c_line), k + 1, Len(Trim(c_line))))
        IN  /\ c_out.kind = StatedKind(cmd, arg)
            /\ c_out.kind = "SwitchModel" => c_out.arg = arg

\* C20 (as stated): a call of process_command writes nothing to the standard
\* output and starts no process, whether made on its own or by the agent
\* thread on receiving a line.
C20_NoSideEffect ==
    [][ /\ c_out' # c_out => (stdout' = stdout /\ a_pc' = a_pc)
        /\ tlog' # tlog => stdout' = stdout ]_vars

(***************************************************************************)
(* The input line, the cursor and the history (SpecEdit).                  *)
(***************************************************************************)
\* C21: after any sequence of the editing, cursor, history and submit
\* operations, with characters of 1 to 4 bytes, the cursor is a byte offset
\* between 0 and the byte length of the input and lies on a character
\* boundary of the input.
C21_CursorOnBoundary ==
    /\ 0 <= app.cursor_pos
    /\ app.cursor_pos <= ByteLen(app.input)
    /\ IsCharBoundary(app.input, app.cursor_pos)

\* the cursor stepped left over a 4-byte character and stands behind a
\* 2-byte one
C21_Witness ==
    /\ last_key = "Left"
    /\ app.input = << "U2", "U4" >>
    /\ app.cursor_pos = 2

Newest(a) == Len(a.input_history) - 1

\* C22: history up from not-browsing loads the newest entry; history up at
\* the oldest entry changes nothing, however often it is repeated; history
\* down at the newest entry stops browsing and empties the input; history
\* down while not browsing changes nothing, typed text and cursor included.
C22_HistoryBoundaries ==
    /\ [](app.history_index = 0 => history_up(history_up(app)) = app)
    /\ [][ /\ ( last_key' = "Up" /\ app.history_index = None /\ app.input_history # << >> )
               => /\ app'.history_index = Newest(app)
                  /\ app'.input = app.input_history[Len(app.input_history)]
                  /\ app'.input_history = app.input_history
           /\ ( last_key' = "Up" /\ app.history_index = 0 ) => app' = app
           /\ ( last_key' = "Down" /\ app.history_index # None
                                   /\ app.history_index = Newest(app) )
               => /\ app'.history_index = None
                  /\ app'.input = << >>
           /\ ( last_key' = "Down" /\ app.history_index = None ) => app' = app
         ]_vars

\* history down was pressed while not browsing, with text typed after two
\* submits: the text and the cursor behind it are still there
C22_Witness ==
    /\ last_key = "Down"
    /\ app.history_index = None
    /\ Len(app.input_history) = 2
    /\ app.input = << "U3" >>
    /\ app.cursor_pos = 3

\* C23: history_index is None or Some(i) with 0 <= i < len(input_history);
\* input_history changes only in submit, which appends exactly one entry and
\* leaves the earlier entries alone; browsing never changes input_history.
C23_HistoryIndexAndAppend ==
    /\ [](app.history_index = None
            \/ (0 <= app.history_index /\ app.history_index < Len(app.input_history)))
    /\ [][ app'.input_history # app.input_history
             => /\ last_key' = "Submit"
                /\ Len(app'.input_history) = Len(app.input_history) + 1
                /\ SubSeq(app'.input_history, 1, Len(app.input_history)) = app.input_history
         ]_vars
    /\ [][ last_key' = "Submit" /\ Trim(app.input) # << >>
             => app'.input_history # app.input_history ]_vars

\* the same text was submitted twice and the user browsed up to the oldest entry
C23_Witness ==
    /\ last_key = "Up"
    /\ app.history_index = 0
    /\ app.input_history = << << "/" >>, << "/" >> >>

\* C24: submit on an empty or blank input is rejected: nothing is returned,
\* nothing is appended to input_history, input, cursor and history_index stay;
\* the Enter arm then sends nothing, adds no message and does not set
\* agent_busy.
C24_BlankSubmitRejected ==
    /\ [](Trim(app.input) = << >>
            => /\ submit_input(app) = app
               /\ SubmitText(app) = << >>
               /\ ~EnterDispatches(app)
               /\ EnterEffect(app) = app)
    /\ [][ last_key' = "Submit" /\ Trim(app.input) = << >> => app' = app ]_vars

\* submit was applied to two blanks with the cursor between them, while
\* browsing is off and one entry is in the history
C24_Witness ==
    /\ last_key = "Submit"
    /\ app.input = << " ", " " >>
    /\ app.cursor_pos = 1
    /\ Len(app.input_history) = 1

\* C25: submit on an input whose trimmed form t is not empty returns t,
\* appends t as the last entry of input_history (also when t repeats the
\* previous entry or starts with a slash), sets history_index to None,
\* empties the input, sets the cursor to 0; history up then restores t.
C25_SubmitAccepted ==
    [][ last_key' = "Submit" /\ Trim(app.input) # << >>
         => /\ SubmitText(app) = Trim(app.input)
            /\ app'.input_history = Append(app.input_history, Trim(app.input))
            /\ app'.history_index = None
            /\ app'.input = << >>
            /\ app'.cursor_pos = 0
            /\ history_up(app').input = Trim(app.input)
            /\ history_up(app').history_index = Newest(app')
      ]_vars

\* a text starting with a slash was submitted while the same text was the
\* newest entry
C25_Witness ==
    /\ last_key = "Submit"
    /\ app.input_history = << << "/" >>, << "/" >> >>
    /\ app.input = << >>
    /\ app.history_index = None

(***************************************************************************)
(* The sidebar lists (SpecRecent).                                         *)
(***************************************************************************)
Elems(s) == { s[i] : i \in 1..Len(s) }

NoRepeat(s) == \A i, j \in 1..Len(s) : s[i] = s[j] => i = j

\* the event handled in this step, if the step handles one of type t
Handles(t) == handled' # handled /\ handled'[Len(handled')].type = t

\* C26: recent_files never has more than 10 entries nor the same path twice;
\* adding a path that is present moves it to index 0, keeps the length and
\* the order of the others; adding a new path to a full list puts it at
\* index 0 and drops the last entry.
C26_RecentFiles ==
    /\ [](Len(app.recent_files) <= 10 /\ NoRepeat(app.recent_files))
    /\ [][ Handles("ToolCallStarted") =>
             LET path == handled'[Len(handled')].args
                 old  == app.recent_files
                 new  == app'.recent_files
             IN  /\ new[1] = path
                 /\ path \in Elems(old)
                      => /\ Len(new) = Len(old)
                         /\ Tail(new) = SelectSeq(old, LAMBDA f : f # path)
                 /\ (path \notin Elems(old) /\ Len(old) = 10)
                      => new = <<path>> \o SubSeq(old, 1, 9)
                 /\ (path \notin Elems(old) /\ Len(old) < 10)
                      => new = <<path>> \o old
         ]_vars

\* a path that was the fourth of ten was added again, and then an eleventh
\* path: the list is still full and the entry that was last is gone
C26_Witness ==
    /\ Len(handled) = 2
    /\ handled[1] = ToolCallStarted("read_file", FilePath(4))
    /\ handled[2] = ToolCallStarted("read_file", FilePath(11))
    /\ Len(app.recent_files) = 10
    /\ app.recent_files[1] = FilePath(11)
    /\ app.recent_files[2] = FilePath(4)
    /\ FilePath(10) \notin Elems(app.recent_files)
    /\ app.recent_tools = << >>

\* C27: recent_tools never has more than 8 entries; every insertion puts the
\* new entry at index 0 in front of the earlier ones, whatever their names,
\* and an insertion into a list of 8 drops exactly the entry that was last.
C27_RecentTools ==
    /\ [](Len(app.recent_tools) <= 8)
    /\ [][ Handles("ToolCallCompleted") =>
             LET evt == handled'[Len(handled')]
                 new == [name |-> evt.name, success |-> evt.success]
                 old == app.recent_tools
             IN  app'.recent_tools =
                     <<new>> \o (IF Len(old) = 8 THEN SubSeq(old, 1, 7) ELSE old)
         ]_vars

\* a tool whose name is in the list of 8 completed twice: both entries are
\* in front, the older ones follow, and the two that were last are gone
C27_Witness ==
    /\ Len(handled) = 2
    /\ handled[1] = ToolCallCompleted("t1", FALSE)
    /\ handled[2] = ToolCallCompleted("t1", TRUE)
    /\ Len(app.recent_tools) = 8
    /\ app.recent_tools[1] = [name |-> "t1", success |-> TRUE]
    /\ app.recent_tools[2] = [name |-> "t1", success |-> FALSE]
    /\ app.recent_tools[3] = FullTools[1]
    /\ app.recent_tools[8] = FullTools[6]
    /\ app.recent_files = << >>

(***************************************************************************)
(* The keys of the render loop next to a running turn (SpecKeys, FairKeys).*)
(***************************************************************************)
Appends == Len(app'.messages) > Len(app.messages)

\* C28: every step that appends to the message log leaves scroll_offset at
\* the follow sentinel usize::MAX, whatever it was before, a finite offset
\* after PageUp included; in particular it stays at the sentinel if it was
\* there.
C28_AppendFollowsTail ==
    /\ [][ Appends => app'.scroll_offset = UsizeMax ]_vars
    /\ [][ (Appends /\ app.scroll_offset = UsizeMax) => app'.scroll_offset = UsizeMax ]_vars
    /\ [](\A t \in {"answer", "banner"} :
             add_message(app, ChatMsg("Assistant", t)).scroll_offset = UsizeMax)

\* the user paged up to offset 0 during the turn, then the response arrived
C28_Witness ==
    /\ scroll_before = 0
    /\ app.scroll_offset = UsizeMax
    /\ handled # << >>
    /\ handled[Len(handled)] = Response("answer")
    /\ app.messages[Len(app.messages)] = ChatMsg("Assistant", "answer")

PageDownPressed(key) ==
    key = "PageDown" => (app.scroll_offset = UsizeMax \/ app.scroll_offset < MaxScroll)

\* C30: the render loop never waits for the agent thread: with nothing on the
\* channel the drain loop ends at once, at the poll every key (editing,
\* cursor, history, scroll, Ctrl+L, Ctrl+D) and the time-out can be taken
\* whatever the agent thread is doing, and the loop keeps coming back to its
\* draw until it is left, also when the agent thread never finishes its turn.
C30_RenderLoopNeverWaits ==
    /\ [](r_pc = "drain" => ENABLED (DrainOne \/ DrainEnd))
    /\ [](r_pc = "poll" =>
            /\ ENABLED PollTimeout
            /\ \A key \in LocalKeys \cup {"CtrlD"} :
                   PageDownPressed(key) => ENABLED KeyLocal(key))
    /\ []<>(r_pc = "draw" \/ r_pc = "exited")

\* Ctrl+L was handled while the agent thread was inside the engine turn
C30_Witness ==
    /\ a_pc = "turn"
    /\ app.agent_busy
    /\ last_key = "CtrlL"
    /\ app.messages = << >>

(***************************************************************************)
(* A message and then /q (FairSpec).                                       *)
(***************************************************************************)
\* the lines dispatched are an ordinary message and then the quit command
MessageThenQuit == sent = << <<"a">>, S_q >>

QuitHandled == handled # << >> /\ handled[Len(handled)] = Quit

LoopLeft == r_pc \in {"restore", "returned", "exited"}

\* C29: when an ordinary message and then, after its turn, the quit command
\* are submitted: the User message is in the log in front of what the turn
\* adds; the agent thread emits the events of one engine turn, ending with
\* Done, and then for the quit command one Quit event, without an engine
\* turn and without a Done; the render loop handles the events in that
\* order, and once it has handled the Quit event should_quit is set and it
\* leaves the loop in that iteration, before any key is read; and the loop
\* is left eventually.
C29_MessageThenQuit ==
    /\ [](MessageThenQuit =>
            /\ Len(app.messages) >= 3
            /\ app.messages[3] = UserMsg(<<"a">>)
            /\ Len(tlog) \in {1, 2}
            /\ tlog[1].input = <<"a">>
            /\ tlog[1].outcome \in {"ok", "err"}
            /\ tlog[1].closed
            /\ CountClosing(tlog[1].events) = 1
            /\ tlog[1].events[Len(tlog[1].events)] = Done
            /\ Len(tlog) = 2 =>
                  /\ tlog[2].input = S_q
                  /\ tlog[2].kind = "Quit"
                  /\ tlog[2].outcome = ""
                  /\ tlog[2].stats1 = tlog[2].stats0
                  /\ tlog[2].events \in { << >>, <<Quit>> }
            /\ IsPrefix(emitted, tlog[1].events \o <<Quit>>)
            /\ IsPrefix(handled, emitted)
            /\ QuitHandled =>
                  /\ app.should_quit
                  /\ last_key = "none"
                  /\ r_pc \notin {"draw", "poll"})
    /\ (MessageThenQuit ~> LoopLeft)

\* both lines were handled: the turn answered, the Quit event was the last
\* event handled, and main has returned Ok
C29_Witness ==
    /\ MessageThenQuit
    /\ QuitHandled
    /\ tlog[1].outcome = "ok"
    /\ handled = << Response("answer") >> \o TurnOkEvents(tlog[1].stats1) \o <<Quit>>
    /\ r_pc = "exited"
    /\ r_ret = "ok"

(***************************************************************************)
(* The terminal when main returns (Spec).                                  *)
(***************************************************************************)
\* C31 (as stated): whenever main has returned after the render loop was
\* entered, raw mode is disabled and the alternate screen is left.
C31_TerminalRestored ==
    r_pc \in {"returned", "exited"} => (~term.raw /\ ~term.alt)

(***************************************************************************)
(* Provider and model (SpecResolve).                                       *)
(***************************************************************************)
\* m without its first Len(p) elements
Strip(m, p) == SubSeq(m, Len(p) + 1, Len(m))

\* C32 (as stated), with m the model string the resolution is given: with
\* p and m the result is (p, m without the prefix "p:" if m starts with it,
\* else m); with only m of the form pfx:rest and pfx one of anthropic,
\* ollama, claude-cli it is (pfx, rest), otherwise (ollama, m); with only p
\* the model is sonnet for anthropic and claude-cli and llama3.2:3b
\* otherwise; with neither it is (ollama, llama3.2:3b).
C32_Resolution ==
    resolved.done =>
        LET po == cfg.provider
            mo == raw_model(cfg)
            p  == po.val
            m  == mo.val
        IN  /\ (po.some /\ mo.some) =>
                  /\ resolved.provider = p
                  /\ resolved.model = IF StartsWith(m, p \o <<":">>)
                                      THEN Strip(m, p \o <<":">>) ELSE m
            /\ (~po.some /\ mo.some) =>
                  IF \E pfx \in {W_anthropic, W_ollama, W_claude_cli} :
                        StartsWith(m, pfx \o <<":">>)
                  THEN /\ resolved.provider = << m[1] >>
                       /\ resolved.model = Strip(m, << m[1], ":" >>)
                  ELSE /\ resolved.provider = W_ollama
                       /\ resolved.model = m
            /\ (po.some /\ ~mo.some) =>
                  /\ resolved.provider = p
                  /\ resolved.model = IF p \in {W_anthropic, W_claude_cli}
                                      THEN W_sonnet ELSE W_llama
            /\ (~po.some /\ ~mo.some) =>
                  /\ resolved.provider = W_ollama
                  /\ resolved.model = W_llama

(***************************************************************************)
(* The events of a successful turn (SpecAgent).                            *)
(***************************************************************************)
EngineTypes == {"Narration", "ToolCallStarted", "ToolCallCompleted", "LlmCall", "Response"}

\* the events of turn t from the k-th on
EventsFrom(t, k) == SubSeq(t.events, k, Len(t.events))

\* C33: the events of a successful turn are, in this order: the events the
\* engine pushed, one TokenUpdate with the counters as this turn left them,
\* the auto-compaction notice exactly when the compaction ran (and none of
\* its progress strings), and Done.
C33_OkTurnOrder ==
    \A i \in 1..Len(tlog) :
        (IsOkTurn(tlog[i]) /\ tlog[i].closed) =>
            LET t == tlog[i]
            IN  \E k \in 0..Len(t.events) :
                    /\ \A j \in 1..k : t.events[j].type \in EngineTypes
                    /\ Len(t.events) >= k + 2
                    /\ t.events[k + 1] = TokenUpdate(total_tokens(t.stats1),
                                                     t.stats1.total_turns,
                                                     estimated_cost(t.stats1))
                    /\ t.stats1.total_turns > t.stats0.total_turns
                    /\ IF t.compactions1 # t.compactions0
                       THEN /\ t.compactions1 = t.compactions0 + 1
                            /\ Len(t.events) = k + 3
                            /\ t.events[k + 2].type = "SystemMessage"
                            /\ t.events[k + 2].text = "auto_compacted"
                            /\ t.events[k + 3] = Done
                       ELSE EventsFrom(t, k + 2) = <<Done>>

\* a turn in which the engine answered, the counters reached the threshold
\* and the compaction ran
C33_Witness ==
    /\ tlog # << >>
    /\ IsOkTurn(LastTurn)
    /\ LastTurn.closed
    /\ Len(LastTurn.events) = 4
    /\ LastTurn.events[1] = Response("answer")
    /\ LastTurn.events[2].type = "TokenUpdate"
    /\ LastTurn.events[3].text = "auto_compacted"
    /\ LastTurn.compactions1 = LastTurn.compactions0 + 1

(***************************************************************************)
(* Which inputs reach the engine (SpecAgent).                              *)
(***************************************************************************)
\* the step enters the call of the engine's turn operation
EngineEntered == a_pc # "turn" /\ a_pc' = "turn"

\* the step is the receipt of an input
InputReceived == Len(tlog') = Len(tlog) + 1

\* the call of the engine's turn operation (or of the shell) returned in turn t
CallReturned(t) == t.outcome # ""

TurnsWithoutEngine ==
    \A i \in 1..Len(tlog) :
        LET t == tlog[i]
        IN  /\ (i = Len(tlog) /\ a_pc = "turn") =>
                   (t.kind = "NotACommand" /\ t.input = a_input /\ ~CallReturned(t))
            /\ CallReturned(t) => (t.kind \in {"NotACommand", "ShellCommand"} /\ t.input # << >>)
            /\ (t.kind # "NotACommand") => t.stats1 = t.stats0
            /\ (t.kind = "NotACommand" /\ t.closed) => t.outcome \in {"ok", "err"}
            /\ (t.kind = "SwitchModel") =>
                   /\ t.compactions1 = t.compactions0
                   /\ \E k \in 0..2 : t.events = SubSeq(SwitchModelEvents(t.arg), 1, k)

\* C34: the engine's turn operation is entered only on the receipt of an
\* input classified NotACommand, once for each of them and with the trimmed
\* text; every other input ends its turn without it, and /model leaves the
\* counters, the compactions and the model name the UI shows as they were.
C34_EngineOnlyForMessages ==
    [][ /\ EngineEntered =>
              /\ InputReceived
              /\ a_input' = Trim(ChanHead(input_ch))
              /\ a_input' # << >>
              /\ process_command(a_input').kind = "NotACommand"
        /\ (InputReceived /\ Trim(ChanHead(input_ch)) # << >>
               /\ process_command(Trim(ChanHead(input_ch))).kind = "NotACommand")
              => EngineEntered
        /\ (a_pc = "turn" /\ a_pc' # "turn") =>
              (a_pc' = "emit" /\ tlog'[Len(tlog')].outcome \in {"ok", "err"})
        /\ TurnsWithoutEngine'
        /\ app'.status.model = AppNew.status.model
        /\ resolved' = resolved ]_vars

\* /model m was answered and shown, then the padded message ` a ` reached
\* the engine as `a` and the call returned
C34_Witness ==
    /\ Len(tlog) = 2
    /\ sent = << S_model \o <<" ", "m">>, <<" ", "a", " ">> >>
    /\ tlog[1].kind = "SwitchModel"
    /\ tlog[1].closed
    /\ Len(handled) = 2
    /\ tlog[2].kind = "NotACommand"
    /\ tlog[2].input = <<"a">>
    /\ tlog[2].outcome = "ok"

(***************************************************************************)
(* Auto-compaction, once triggered, stays triggered (SpecPolicy).          *)
(***************************************************************************)
\* the compaction ran after every successful turn that follows a compacted one
CompactedEverAfter ==
    \A i \in 1..Len(tlog) : \A j \in (i + 1)..Len(tlog) :
        (IsOkTurn(tlog[i]) /\ Compacted(tlog[i]) /\ IsOkTurn(tlog[j]) /\ tlog[j].closed)
            => Compacted(tlog[j])

\* C35: once the auto-compaction ran after a successful turn it runs after
\* every later successful turn: no step, the compaction included, lowers the
\* prompt-token or the turn counter, so the trigger condition stays true.
C35_CompactionRecurs ==
    [][ /\ stats'.total_prompt_tokens >= stats.total_prompt_tokens
        /\ stats'.total_turns >= stats.total_turns
        /\ compactions' # compactions => stats' = stats
        /\ ShouldAutoCompact(stats) => ShouldAutoCompact(stats')
        /\ CompactedEverAfter' ]_vars

\* the first turn was compacted, the second failed in the engine, the third
\* succeeded and was compacted again
C35_Witness ==
    /\ Len(tlog) = 3
    /\ IsOkTurn(tlog[1]) /\ Compacted(tlog[1])
    /\ IsFailedTurn(tlog[2])
    /\ IsOkTurn(tlog[3]) /\ tlog[3].closed /\ Compacted(tlog[3])

(***************************************************************************)
(* How the render loop is left while a turn is in progress (Spec).         *)
(***************************************************************************)
\* the render loop processed a Quit event
QuitSeen == \E k \in 1..Len(handled) : handled[k] = Quit

\* every input sent had its closing event processed
AllTurnsClosed == CountClosing(handled) = Len(sent)

\* C36 (as stated): the render loop is left only with agent_busy false or
\* after a Quit event was processed.
C36_NeverAbandoned == LoopLeft => (~app.agent_busy \/ QuitSeen)

\* C36 (amended): a step that leaves the render loop either returns an I/O
\* error of draw, poll or read, or breaks with should_quit set; a break that
\* is not made by Ctrl+D happens with agent_busy false or after a Quit event
\* was processed, and then every input sent had its closing event
\* processed.  Ctrl+D breaks whether or not a turn is in progress.
C36_AbandonedOnlyByCtrlDOrError ==
    [][ (~LoopLeft /\ LoopLeft') =>
            \/ r_pc' = "returned" /\ r_ret' = "err"
            \/ /\ r_pc' = "restore"
               /\ app'.should_quit
               /\ \/ r_pc = "poll" /\ last_key' = "CtrlD"
                  \/ /\ ~app'.agent_busy \/ QuitSeen'
                     /\ AllTurnsClosed' ]_vars

\* Ctrl+D was pressed while a turn was in progress: the loop is left with
\* agent_busy true, no Quit processed and the turn's closing event unseen
C36_Witness ==
    /\ r_pc = "restore"
    /\ last_key = "CtrlD"
    /\ app.agent_busy
    /\ ~QuitSeen
    /\ ~AllTurnsClosed

(***************************************************************************)
(* The session counters are the sums of what the engine reported           *)
(* (SpecPolicy).                                                           *)
(***************************************************************************)
RECURSIVE SumTurns(_)
SumTurns(log) ==
    IF log = << >> THEN 0
    ELSE SumTurns(SubSeq(log, 1, Len(log) - 1)) + log[Len(log)].result.turns

RECURSIVE SumTokens(_)
SumTokens(log) ==
    IF log = << >> THEN 0
    ELSE SumTokens(SubSeq(log, 1, Len(log) - 1)) + log[Len(log)].result.total_tokens

\* C37: the turn counter is the sum of the turns the engine reported for the
\* successful turns, the prompt-token counter the sum of their tokens, the
\* completion-token counter is 0 and the total is the prompt-token counter;
\* only successful engine turns carry a report.
C37_CountersAreSums ==
    /\ stats.total_turns = SumTurns(tlog)
    /\ stats.total_prompt_tokens = SumTokens(tlog)
    /\ stats.total_completion_tokens = 0
    /\ total_tokens(stats) = stats.total_prompt_tokens
    /\ \A i \in 1..Len(tlog) : ~IsOkTurn(tlog[i]) => tlog[i].result = NoResult

\* three inputs, one of which failed in the engine: the turn counter (4) is
\* neither the number of inputs nor the number of successful calls
C37_Witness ==
    /\ Len(tlog) = 3
    /\ IsOkTurn(tlog[1]) /\ tlog[1].result.turns = 3
    /\ IsFailedTurn(tlog[2])
    /\ IsOkTurn(tlog[3]) /\ tlog[3].result.turns = 1
    /\ stats.total_turns = 4
    /\ stats.total_prompt_tokens = 240001

(***************************************************************************)
(* Editing round trips (SpecEdit).                                         *)
(***************************************************************************)
\* the characters of s before the one that starts at byte b, and from it on
Before(s, b) == SubSeq(s, 1, CharAt(s, b) - 1)

From(s, b) == SubSeq(s, CharAt(s, b), Len(s))

\* C38: on every input with the cursor on a character boundary, and for
\* every character of 1 to 4 bytes: insert then delete-before gives back the
\* input and the cursor; delete-before removes the character that ends at
\* the cursor and moves the cursor back by its length in bytes; delete-after
\* removes the character that starts at the cursor and keeps the cursor;
\* right then left comes back to the cursor unless it was at the end.
C38_EditRoundTrips ==
    LET s == app.input
        b == app.cursor_pos
    IN  /\ IsCharBoundary(s, b)
        /\ \A c \in EditChars :
              /\ CharLen(c) \in 1..4
              /\ delete_char_before(insert_char(app, c)) = app
        /\ b > 0 =>
              LET last == Before(s, b)[Len(Before(s, b))]
              IN  /\ delete_char_before(app).input =
                         SubSeq(Before(s, b), 1, Len(Before(s, b)) - 1) \o From(s, b)
                  /\ delete_char_before(app).cursor_pos = b - CharLen(last)
        /\ b < ByteLen(s) =>
              /\ delete_char_after(app).input = Before(s, b) \o Tail(From(s, b))
              /\ delete_char_after(app).cursor_pos = b
              /\ move_cursor_left(move_cursor_right(app)).cursor_pos = b
              /\ move_cursor_right(app).cursor_pos = b + CharLen(Head(From(s, b)))

\* Backspace removed a 3-byte character in front of a 4-byte one
C38_Witness ==
    /\ last_key = "Backspace"
    /\ app.input = <<"U4">>
    /\ app.cursor_pos = 0

(***************************************************************************)
(* What is sent on the inbound channel, and when (SpecSend).               *)
(***************************************************************************)
\* the step puts a string on the inbound channel
Sends == Len(input_ch'.q) > Len(input_ch.q)

\* C39: only the Enter arm sends on the inbound channel; the string sent is
\* not empty and has no blank at either end; in the same step its User
\* message is appended to the log and agent_busy is set, and at that point
\* every event emitted so far has been processed, so each message of the
\* turn comes after the User message.
C39_OnlyEnterSends ==
    [][ (Sends \/ sent' # sent) =>
            LET t == sent'[Len(sent')]
            IN  /\ r_pc = "poll"
                /\ last_key' = "Enter"
                /\ ~app.agent_busy
                /\ sent' = Append(sent, t)
                /\ input_ch'.q = Append(input_ch.q, t)
                /\ t # << >>
                /\ ~IsWs(t[1])
                /\ ~IsWs(t[Len(t)])
                /\ app'.messages = Append(app.messages, [type |-> "User", line |-> t])
                /\ app'.agent_busy
                /\ event_ch.q = << >>
                /\ handled = emitted
                /\ emitted' = emitted ]_vars

\* the line ` a` was typed and Enter sent `a`: the log ends with its User
\* message and no event of the turn has been emitted
C39_Witness ==
    /\ last_key = "Enter"
    /\ r_pc = "draw"
    /\ sent = << <<"a">> >>
    /\ input_ch.q = << <<"a">> >>
    /\ app.agent_busy
    /\ app.messages[Len(app.messages)] = [type |-> "User", line |-> <<"a">>]
    /\ emitted = << >>

(***************************************************************************)
(* Scrolling a log of more than twenty messages: events append messages,   *)
(* PageUp, PageDown and Ctrl+L are pressed in between.                     *)
(***************************************************************************)
MaxMessages == 25

\* main.rs 155-157: a Response event is handled, its message is appended
ScrollAppend ==
    /\ Len(app.messages) < MaxMessages
    /\ ApplyOp("none", ProcessEvent(app, Response("answer")))

ScrollPageUp == ApplyOp("PageUp", KeyEffect(app, "PageUp"))

ScrollPageDown ==
    /\ PageDownPressed("PageDown")
    /\ ApplyOp("PageDown", KeyEffect(app, "PageDown"))

ScrollClear == ApplyOp("CtrlL", KeyEffect(app, "CtrlL"))

NextScroll == ScrollAppend \/ ScrollPageUp \/ ScrollPageDown \/ ScrollClear

SpecScroll == Init /\ [][NextScroll]_vars

(***************************************************************************)
(* The scroll keys (SpecScroll).                                           *)
(***************************************************************************)
Max0(n) == IF n > 0 THEN n ELSE 0

\* C40: PageDown leaves the follow sentinel where it is and adds 10 to a
\* finite offset, which stays finite; PageUp from the sentinel gives
\* max(0, number of messages - 20) and from a finite offset subtracts 10
\* down to 0; clearing the messages sets the offset to 0; PageUp and
\* PageDown change nothing but the offset.
C40_ScrollKeys ==
    [][ /\ last_key' = "PageDown" =>
              IF app.scroll_offset = UsizeMax
              THEN app'.scroll_offset = UsizeMax
              ELSE /\ app'.scroll_offset = app.scroll_offset + 10
                   /\ app'.scroll_offset # UsizeMax
        /\ last_key' = "PageUp" =>
              /\ app'.scroll_offset =
                     IF app.scroll_offset = UsizeMax
                     THEN Max0(Len(app.messages) - 20)
                     ELSE Max0(app.scroll_offset - 10)
              /\ app'.scroll_offset # UsizeMax
        /\ last_key' = "CtrlL" =>
              (app'.messages = << >> /\ app'.scroll_offset = 0)
        /\ last_key' \in {"PageUp", "PageDown"} =>
              app' = [app EXCEPT !.scroll_offset = app'.scroll_offset] ]_vars

\* PageUp was pressed at the tail of a log of 25 messages
C40_Witness ==
    /\ last_key = "PageUp"
    /\ Len(app.messages) = 25
    /\ app.scroll_offset = 5
====
